---- MODULE Spec2Model ----
(***************************************************************************)
(* Model of the masking engine of general_backend:                         *)
(*   masking/mask_utils.py  - range resolver, coordinate mask builder,     *)
(*                            mask combinators and their provenance merge  *)
(*   masking/atm_masks.py   - surface-type builders, atomic dispatch and   *)
(*                            the create_masks orchestrator                *)
(*                                                                         *)
(* Representation                                                          *)
(*   - a Python string is a sequence of tokens; concatenation is \o.       *)
(*   - an attribute value is a record [t, n, s]: t = "str" with tokens s,  *)
(*     t = "bytes" with tokens s, or t = "num" with number n.              *)
(*   - an attrs dictionary is a sequence of <<key, value>> pairs in        *)
(*     insertion order (Python dicts keep insertion order).                *)
(*   - fractions and thresholds are counted in tenths (8 is 0.8).          *)
(*   - a raised exception is a result record whose status is the           *)
(*     exception class.                                                    *)
(***************************************************************************)
EXTENDS Integers, Sequences, FiniteSets, TLC

VARIABLES pc, call, cm

vars == <<pc, call, cm>>

\* ------------------------------------------------------------------ bounds
\* largest coordinate value of the grids fed to the coordinate functions
MaxCoord == 3
\* longest coordinate sequence fed to the coordinate functions
MaxLen == 3
\* longest time dimension of a fraction field
MaxTime == 2
\* largest number of masks handed to a combinator
MaxMasks == 3
\* longest request list handed to create_masks
MaxReq == 2
\* number of grid cells of a fraction field
NCell == 2

\* most positional operands handed to an alignment helper
MaxArgs == 3

\* ----------------------------------------------------------------- helpers
Range(s) == {s[i] : i \in 1..Len(s)}

Str(toks) == [t |-> "str", n |-> 0, s |-> toks]

Bytes(toks) == [t |-> "bytes", n |-> 0, s |-> toks]

Num(k) == [t |-> "num", n |-> k, s |-> <<>>]

\* str(value) as used by an f-string
RECURSIVE JoinToks(_, _)
JoinToks(parts, sep) ==
    IF Len(parts) = 0 THEN <<>>
    ELSE IF Len(parts) = 1 THEN parts[1]
    ELSE parts[1] \o sep \o JoinToks(Tail(parts), sep)

\* injective sequences over S of length 1..n (coordinates are unique)
DistinctSeqs(S, n) ==
    UNION {{s \in [1..k -> S] : \A i, j \in 1..k : i # j => s[i] # s[j]} : k \in 1..n}

SeqsUpTo(S, n) == UNION {[1..k -> S] : k \in 0..n}

\* dict.get / dict[key] = value on an insertion-ordered dict
HasKey(d, k) == \E i \in 1..Len(d) : d[i][1] = k

GetKey(d, k) == d[CHOOSE i \in 1..Len(d) : d[i][1] = k][2]

SetKey(d, k, v) ==
    IF HasKey(d, k)
    THEN [i \in 1..Len(d) |-> IF d[i][1] = k THEN <<k, v>> ELSE d[i]]
    ELSE Append(d, <<k, v>>)

Keys(d) == {d[i][1] : i \in 1..Len(d)}

NoCall == [op |-> "none"]

NoRun == [phase |-> "none"]

\* ------------------------------------------------------- labelled arrays
\* An xarray.DataArray is a record [dims, shape, coords, vals, attrs]: dims the
\* dimension names, shape their lengths, coords one coordinate sequence per
\* dimension, vals a function from index tuples to values.
RECURSIVE Idx(_)
Idx(shape) ==
    IF Len(shape) = 0 THEN {<<>>}
    ELSE {<<i>> \o rest : i \in 1..shape[1], rest \in Idx(Tail(shape))}

DimPos(dims, name) == CHOOSE p \in 1..Len(dims) : dims[p] = name

HasDim(arr, name) == name \in Range(arr.dims)

DropAt(s, p) == [i \in 1..(Len(s) - 1) |-> IF i < p THEN s[i] ELSE s[i + 1]]

InsertAt(s, p, x) ==
    [i \in 1..(Len(s) + 1) |-> IF i < p THEN s[i] ELSE IF i = p THEN x ELSE s[i - 1]]

\* elementwise unary operation giving dtype; arithmetic and comparison drop the attrs
MapVals(arr, F(_), dtype) ==
    [arr EXCEPT !.vals = [idx \in DOMAIN arr.vals |-> F(arr.vals[idx])],
                !.dtype = dtype,
                !.attrs = <<>>]

\* ------------------------------------------------ mask_utils._range_mode
range_modes == {"inclusive", "exclusive", "inclusive_min", "inclusive_max"}

\* 'inclusive' in range_mode (substring test)
IsInclusiveMode(range_mode) ==
    range_mode \in {"inclusive", "inclusive_min", "inclusive_max"}

\* variant: closed interval
WhereInsideClosed(dim_array, lo, hi) ==
    SelectSeq(dim_array, LAMBDA v : v >= lo /\ v <= hi)

\* variant: the lower endpoint belongs to the interval
WhereInsideHalfOpen(dim_array, lo, hi) ==
    SelectSeq(dim_array, LAMBDA v : v >= lo /\ v < hi)

\* dim_array.where((dim_array > lo) & (dim_array < hi), drop=True).values
WhereStrictlyInside(dim_array, lo, hi) ==
    SelectSeq(dim_array, LAMBDA v : v > lo /\ v < hi)

RangeRaised(status, msg) ==
    [status |-> status, msg |-> msg, values |-> <<>>, warned |-> FALSE]

\* variant: the inclusive modes include the endpoints they name
RangeModeInclusive(min_max_tuple, dim_array, dim_min_max, range_mode) ==
    IF range_mode \notin range_modes
    THEN RangeRaised("ValueError", <<"Invalid range_mode '", range_mode, "'.">>)
    ELSE IF min_max_tuple.kind # "tuple"
    THEN RangeRaised("TypeError", <<"'min_max_tuple' must be a tuple, got ",
                                   min_max_tuple.kind>>)
    ELSE IF Len(min_max_tuple.elems) # 2
    THEN RangeRaised("ValueError",
                     <<"'min_max_tuple' must contain exactly two elements (min, max).">>)
    ELSE LET lo == min_max_tuple.elems[1]
             hi == min_max_tuple.elems[2]
         IN  [status |-> "ok",
              msg |-> <<>>,
              values |-> SelectSeq(dim_array, LAMBDA v :
                            /\ IF range_mode \in {"inclusive", "inclusive_min"}
                               THEN v >= lo ELSE v > lo
                            /\ IF range_mode \in {"inclusive", "inclusive_max"}
                               THEN v <= hi ELSE v < hi),
              warned |-> FALSE]

RangeMode(min_max_tuple, dim_array, dim_min_max, range_mode) ==
    IF range_mode \notin range_modes
    THEN RangeRaised("ValueError", <<"Invalid range_mode '", range_mode, "'.">>)
    ELSE IF min_max_tuple.kind # "tuple"
    THEN RangeRaised("TypeError", <<"'min_max_tuple' must be a tuple, got ",
                                   min_max_tuple.kind>>)
    ELSE IF Len(min_max_tuple.elems) # 2
    THEN RangeRaised("ValueError",
                     <<"'min_max_tuple' must contain exactly two elements (min, max).">>)
    ELSE [status |-> "ok",
          msg |-> <<>>,
          values |-> WhereStrictlyInside(dim_array, min_max_tuple.elems[1],
                                         min_max_tuple.elems[2]),
          warned |-> IsInclusiveMode(range_mode)]

\* ------------------------------------------ mask_utils._create_coord_mask
\* str(values): "(a, b)" for a tuple, "[a, b]" for a list, "[a b]" for an array
FmtValues(values) ==
    LET nums == [i \in 1..Len(values.elems) |-> <<ToString(values.elems[i])>>]
    IN  IF values.kind = "tuple"
        THEN <<"(">> \o JoinToks(nums, <<", ">>)
                \o (IF Len(nums) = 1 THEN <<",">> ELSE <<>>) \o <<")">>
        ELSE IF values.kind = "list"
        THEN <<"[">> \o JoinToks(nums, <<", ">>) \o <<"]">>
        ELSE <<"[">> \o JoinToks(nums, <<" ">>) \o <<"]">>

\* variant: the bounds of the valid domain are rejected too
BadValuesClosed(values, valid_range) ==
    SelectSeq(values.elems, LAMBDA val : val <= valid_range[1] \/ val >= valid_range[2])

\* [val for val in values if val < v_min or val > v_max]
BadValues(values, valid_range) ==
    SelectSeq(values.elems, LAMBDA val : val < valid_range[1] \/ val > valid_range[2])

\* variant: range re-comparison against the hull of the target values
IsInHull(dim_array, values_to_mask) ==
    [idx \in Idx(<<Len(dim_array)>>) |->
        /\ \E v \in Range(values_to_mask) : v <= dim_array[idx[1]]
        /\ \E v \in Range(values_to_mask) : v >= dim_array[idx[1]]]

\* data[dim].isin(values_to_mask): one boolean per coordinate of the dimension
IsIn(dim_array, values_to_mask) ==
    [idx \in Idx(<<Len(dim_array)>>) |-> dim_array[idx[1]] \in Range(values_to_mask)]

CoordMaskAttrs(values, dim, range_mode, coord_name, mask_name) ==
    << <<"mask_name", Str(<<mask_name>>)>>,
       <<"mask_type", Str(<<coord_name, "_mask">>)>>,
       <<"mask_description",
         Str(<<"Mask for ", coord_name, " values ">> \o FmtValues(values)
             \o <<" along dimension '", dim, "' with range mode '", range_mode, "'.">>)>> >>

NoMask ==
    [dims |-> <<>>, shape |-> <<>>, coords |-> <<>>, dtype |-> "none", vals |-> <<>>,
     attrs |-> <<>>]

CreateCoordMask(dim_array, values, dim, valid_range, range_mode, coord_name, mask_name) ==
    IF values.kind \notin {"ndarray", "list", "tuple"}
    THEN [status |-> "TypeError", mask |-> NoMask, bad |-> <<>>,
          msg |-> <<coord_name, " must be a numpy array, list, or tuple, got ",
                    values.kind>>]
    ELSE IF values.kind \in {"ndarray", "list"} /\ Len(BadValues(values, valid_range)) > 0
    THEN [status |-> "ValueError", mask |-> NoMask, bad |-> BadValues(values, valid_range),
          msg |-> <<"All ", coord_name, " values must be within ">>
                  \o FmtValues([kind |-> "tuple", elems |-> valid_range])
                  \o <<". Found invalid values: ">>
                  \o FmtValues([kind |-> "list",
                                elems |-> BadValues(values, valid_range)])]
    ELSE LET resolved == IF values.kind = "tuple"
                         THEN RangeMode(values, dim_array, valid_range, range_mode)
                         ELSE [status |-> "ok", msg |-> <<>>, values |-> values.elems,
                               warned |-> FALSE]
         IN  IF resolved.status # "ok"
             THEN [status |-> resolved.status, mask |-> NoMask, bad |-> <<>>,
                   msg |-> resolved.msg]
             ELSE [status |-> "ok",
                   msg |-> <<>>,
                   mask |-> [dims |-> <<dim>>,
                             shape |-> <<Len(dim_array)>>,
                             coords |-> <<dim_array>>,
                             dtype |-> "bool",
                             vals |-> IsIn(dim_array, resolved.values),
                             attrs |-> CoordMaskAttrs(values, dim, range_mode,
                                                      coord_name, mask_name)],
                   bad |-> <<>>]

\* atm_masks.create_latitude_mask, with its defaults dim="lat", valid_range=(-90, 90)
CreateLatitudeMask(dim_array, latitudes, mask_name, valid_range, range_mode) ==
    CreateCoordMask(dim_array, latitudes, "lat", valid_range, range_mode, "lat", mask_name)

\* atm_masks.create_longitude_mask, with its default dim="lon"
CreateLongitudeMask(dim_array, longitudes, mask_name, valid_range, range_mode) ==
    CreateCoordMask(dim_array, longitudes, "lon", valid_range, range_mode, "lon", mask_name)

\* ------------------------------------------------ surface-type builders
\* variant: the array is handed back without the cast
BooleanMaskNoCast(da) == da

\* mask_utils.boolean_mask: da.astype(bool); a number is True iff non-zero
BooleanMask(da) ==
    IF da.dtype = "bool" THEN da
    ELSE [da EXCEPT !.vals = [idx \in DOMAIN da.vals |-> da.vals[idx] # 0],
                    !.dtype = "bool"]

\* variant: da >= threshold
GreaterOrEqual(da, threshold) == MapVals(da, LAMBDA x : x >= threshold, "bool")

\* da > threshold
GreaterThan(da, threshold) == MapVals(da, LAMBDA x : x > threshold, "bool")

\* mask_utils.threshold_float_mask
ThresholdFloatMask(da, threshold) == BooleanMask(GreaterThan(da, threshold))

\* variant: the complementary field used as it is
NotComplemented(da) == MapVals(da, LAMBDA x : x, da.dtype)

\* 1 - da, in tenths
OneMinus(da) == MapVals(da, LAMBDA x : 10 - x, da.dtype)

None == [none |-> TRUE, arr |-> NoMask]

Some(arr) == [none |-> FALSE, arr |-> arr]

\* da.isel(time=0, drop=True): first slice along time, time dimension removed
IselTimeFirst(da) ==
    LET p == DimPos(da.dims, "time")
        shape == DropAt(da.shape, p)
    IN  [da EXCEPT !.dims = DropAt(da.dims, p),
                   !.shape = shape,
                   !.coords = DropAt(da.coords, p),
                   !.vals = [idx \in Idx(shape) |-> da.vals[InsertAt(idx, p, 1)]]]

\* da.squeeze(dim="time"): xarray raises ValueError unless the dimension has
\* length one
SqueezeTimeOk(da) == da.shape[DimPos(da.dims, "time")] = 1

SqueezeTime(da) == IselTimeFirst(da)

SurfaceAttrs(mask_name, surface, fraction_threshold) ==
    << <<"mask_name", Str(<<mask_name>>)>>,
       <<"fraction_threshold", Num(fraction_threshold)>>,
       <<"mask_type", Str(<<"surface_type_mask">>)>>,
       <<"mask_description",
         Str(<<"A mask indicating the presence of ", surface,
               " surface type based on a fraction threshold of ",
               ToString(fraction_threshold * 10), ".0 %.">>)>> >>

Raised(status, msg) == [status |-> status, mask |-> NoMask, msg |-> msg]

\* atm_masks.create_sea_mask
CreateSeaMask(fraction_threshold, sea_frac_data, land_frac_data) ==
    IF sea_frac_data.none /\ land_frac_data.none
    THEN Raised("ValueError", <<"Both sea_frac_data and land_frac_data are None.">>)
    ELSE LET src == IF sea_frac_data.none THEN land_frac_data.arr ELSE sea_frac_data.arr
         IN  IF HasDim(src, "time") /\ ~SqueezeTimeOk(src)
             THEN Raised("ValueError",
                         <<"cannot select a dimension to squeeze out which has length ",
                           "greater than one">>)
             ELSE LET flat == IF HasDim(src, "time") THEN SqueezeTime(src) ELSE src
                      sea == IF sea_frac_data.none THEN OneMinus(flat) ELSE flat
                  IN  [status |-> "ok",
                       msg |-> <<>>,
                       mask |-> [ThresholdFloatMask(sea, fraction_threshold) EXCEPT
                                   !.attrs = SurfaceAttrs("sea_surface_mask", "sea",
                                                          fraction_threshold)]]

\* atm_masks.create_land_mask
CreateLandMask(fraction_threshold, land_frac_data, sea_frac_data) ==
    IF land_frac_data.none /\ sea_frac_data.none
    THEN Raised("ValueError", <<"Both land_frac_data and sea_frac_data are None.">>)
    ELSE LET land0 == IF land_frac_data.none
                      THEN OneMinus(IF HasDim(sea_frac_data.arr, "time")
                                    THEN IselTimeFirst(sea_frac_data.arr)
                                    ELSE sea_frac_data.arr)
                      ELSE land_frac_data.arr
             land == IF HasDim(land0, "time") THEN IselTimeFirst(land0) ELSE land0
         IN  [status |-> "ok",
              msg |-> <<>>,
              mask |-> [ThresholdFloatMask(land, fraction_threshold) EXCEPT
                          !.attrs = SurfaceAttrs("land_surface_mask", "land",
                                                 fraction_threshold)]]

\* ------------------------------------------------------ mask combinators
IndexOf(seq, x) == CHOOSE i \in 1..Len(seq) : seq[i] = x

\* a & b, a | b on DataArrays: the operands are aligned on the labels their
\* shared dimensions have in common, broadcast over the others; attrs dropped
BinOp(a, b, Op(_, _)) ==
    LET dims == a.dims \o SelectSeq(b.dims, LAMBDA d : d \notin Range(a.dims))
        coordOf(d) ==
            IF d \in Range(a.dims) /\ d \in Range(b.dims)
            THEN SelectSeq(a.coords[DimPos(a.dims, d)],
                           LAMBDA v : v \in Range(b.coords[DimPos(b.dims, d)]))
            ELSE IF d \in Range(a.dims) THEN a.coords[DimPos(a.dims, d)]
            ELSE b.coords[DimPos(b.dims, d)]
        coords == [p \in 1..Len(dims) |-> coordOf(dims[p])]
        shape == [p \in 1..Len(dims) |-> Len(coords[p])]
        sub(x, idx) ==
            [p \in 1..Len(x.dims) |->
                IndexOf(x.coords[p],
                        coords[DimPos(dims, x.dims[p])][idx[DimPos(dims, x.dims[p])]])]
    IN  [dims |-> dims, shape |-> shape, coords |-> coords, dtype |-> "bool",
         vals |-> [idx \in Idx(shape) |-> Op(a.vals[sub(a, idx)], b.vals[sub(b, idx)])],
         attrs |-> <<>>]

\* variant: the right operand is ignored
AndKeepsLeft(a, b) == BinOp(a, b, LAMBDA x, y : x)

\* variant: exclusive or
OrExclusive(a, b) == BinOp(a, b, LAMBDA x, y : x # y)

And(a, b) == BinOp(a, b, LAMBDA x, y : x /\ y)

Or(a, b) == BinOp(a, b, LAMBDA x, y : x \/ y)

\* combined_mask = masks[0]; for mask in masks[1:]: combined_mask = combined_mask <op> mask
\* variant: only the second mask is folded in
FoldAndFirstTwo(acc, rest) ==
    IF Len(rest) = 0 THEN acc ELSE And(acc, Head(rest))

RECURSIVE FoldAnd(_, _)
FoldAnd(acc, rest) ==
    IF Len(rest) = 0 THEN acc ELSE FoldAnd(And(acc, Head(rest)), Tail(rest))

RECURSIVE FoldOr(_, _)
FoldOr(acc, rest) ==
    IF Len(rest) = 0 THEN acc ELSE FoldOr(Or(acc, Head(rest)), Tail(rest))

\* value.decode('utf-8') for a bytes value
Decode(value) == IF value.t = "bytes" THEN Str(value.s) ELSE value

\* str(value) inside an f-string; numbers are tenths
FmtValue(value) ==
    IF value.t = "num"
    THEN <<ToString(value.n \div 10), ".", ToString(value.n % 10)>>
    ELSE value.s

\* mask.attrs.get('mask_name', 'unknown_mask')
MaskNameOf(mask) ==
    IF HasKey(mask.attrs, "mask_name")
    THEN FmtValue(GetKey(mask.attrs, "mask_name"))
    ELSE <<"unknown_mask">>

\* first loop of _combine_attributes_masks: attributes[attr][mask_name] = value
\* for every mask, for every attribute but mask_name, in order
RECURSIVE CollectAttrs(_, _, _, _)
CollectAttrs(masks, m, k, attributes) ==
    IF m > Len(masks) THEN attributes
    ELSE IF k > Len(masks[m].attrs) THEN CollectAttrs(masks, m + 1, 1, attributes)
    ELSE LET attr == masks[m].attrs[k][1]
             value == Decode(masks[m].attrs[k][2])
             inner == IF HasKey(attributes, attr) THEN GetKey(attributes, attr) ELSE <<>>
         IN  IF attr = "mask_name"
             THEN CollectAttrs(masks, m, k + 1, attributes)
             ELSE CollectAttrs(masks, m, k + 1,
                               SetKey(attributes, attr,
                                      SetKey(inner, MaskNameOf(masks[m]), value)))

\* ',\n'.join(f"{name}: {val}" for name, val in attributes[attr].items())
ValuesStr(inner) ==
    JoinToks([i \in 1..Len(inner) |-> inner[i][1] \o <<": ">> \o FmtValue(inner[i][2])],
             <<",\n">>)

\* second loop of _combine_attributes_masks
MergeAttr(inner, combination_method) ==
    LET unique_values == {inner[i][2] : i \in 1..Len(inner)}
    IN  IF Cardinality(unique_values) = 1
        THEN CHOOSE v \in unique_values : TRUE
        ELSE Str(<<combination_method, " of:\n">> \o ValuesStr(inner))

\* mask_utils._combine_attributes_masks
CombineAttributesMasks(masks, combination_method) ==
    LET attributes == CollectAttrs(masks, 1, 1, <<>>)
    IN  [i \in 1..Len(attributes) |->
            <<attributes[i][1], MergeAttr(attributes[i][2], combination_method)>>]

\* The combinators return [status, mask, inputs]: inputs are the argument
\* masks as they are after the call. With a single argument combined_mask is
\* masks[0] itself, so the assignment to its attrs is seen through the argument.
\* The result of a combinator call: the returned mask, the argument masks as
\* they are after the call (inputs), and the position of the argument that is
\* the very object returned (same_object_as, 0 when the result is a new
\* object). With one argument combined_mask is masks[0] itself, so assigning
\* combined_mask.attrs replaces the attributes of that argument.
Combined(masks, folded, combination_method) ==
    LET attributes == CombineAttributesMasks(masks, combination_method)
        result == [folded EXCEPT !.attrs = attributes]
    IN  [status |-> "ok",
         mask |-> result,
         inputs |-> IF Len(masks) = 1 THEN <<result>> ELSE masks,
         same_object_as |-> IF Len(masks) = 1 THEN 1 ELSE 0]

\* mask_utils.intersection_of_masks
IntersectionOfMasks(masks) ==
    IF Len(masks) = 0
    THEN [status |-> "ValueError", mask |-> NoMask, inputs |-> masks,
          same_object_as |-> 0]
    ELSE Combined(masks, FoldAnd(masks[1], Tail(masks)), "intersection")

\* mask_utils.union_of_masks
UnionOfMasks(masks) ==
    IF Len(masks) = 0
    THEN [status |-> "ValueError", mask |-> NoMask, inputs |-> masks,
          same_object_as |-> 0]
    ELSE Combined(masks, FoldOr(masks[1], Tail(masks)), "union")

\* ---------------------------------------------------------- region masks
\* the "no region" value (NaN) of the catalog's region-index field
NaN == -1

\* ar6.all.abbrevs, the catalog's ordered abbreviation list (its first entries)
ar6_regions == <<"GIC", "NWN">>

\* ar6.all.mask(data): the catalog's region index of every (lat, lon) cell of
\* the dataset, NaN where the cell belongs to no region
Ar6Mask(dataset) ==
    [dims |-> <<"lat", "lon">>,
     shape |-> <<Len(dataset.lat), Len(dataset.lon)>>,
     coords |-> <<dataset.lat, dataset.lon>>,
     dtype |-> "float",
     vals |-> [idx \in Idx(<<Len(dataset.lat), Len(dataset.lon)>>) |->
                  IF dataset.lat[idx[1]] > 60 /\ idx[2] = 1 THEN 0
                  ELSE IF dataset.lat[idx[1]] > 30 /\ dataset.lat[idx[1]] <= 60 THEN 1
                  ELSE NaN],
     attrs |-> <<>>]

\* variant: the selected indices are cast to bool without the null test
NotNullSkipped(da) == da

\* mask.notnull(): True where the cell holds a number
NotNull(da) == MapVals(da, LAMBDA x : x # NaN, "bool")

\* atm_masks.create_ar6_region_mask
CreateAr6RegionMask(dataset, region_abbrev) ==
    IF region_abbrev \notin Range(ar6_regions)
    THEN Raised("ValueError", <<"'", region_abbrev, "' is not in list">>)
    ELSE LET index == IndexOf(ar6_regions, region_abbrev) - 1
             selected == MapVals(Ar6Mask(dataset),
                                 LAMBDA x : IF x = index THEN x ELSE NaN, "float")
             notnull == NotNull(selected)
         IN  [status |-> "ok",
              msg |-> <<>>,
              mask |-> [BooleanMask(notnull) EXCEPT
                          !.attrs = << <<"mask_name", Str(<<"AR6_", region_abbrev, "_mask">>)>>,
                                       <<"mask_type", Str(<<"region_mask">>)>>,
                                       <<"mask_description",
                                         Str(<<"A mask indicating the presence of the AR6 region '",
                                               region_abbrev, "'.">>)>> >>]]

\* ------------------------------------------------- atomic mask dispatch
implemented_masks ==
    <<"global", "NH_polar", "NH_midlat", "NH_tropics", "tropics", "SH_polar",
      "SH_midlat", "SH_tropics", "land", "ocean">> \o ar6_regions

mask_latbnds_mapping ==
    [name \in {"NH_polar", "NH_midlat", "NH_tropics", "tropics", "SH_polar",
               "SH_midlat", "SH_tropics"} |->
        CASE name = "NH_polar" -> <<60, 90>>
          [] name = "NH_midlat" -> <<30, 60>>
          [] name = "NH_tropics" -> <<0, 30>>
          [] name = "tropics" -> <<-30, 30>>
          [] name = "SH_polar" -> <<-90, -60>>
          [] name = "SH_midlat" -> <<-60, -30>>
          [] name = "SH_tropics" -> <<-30, 0>>]

\* boolean_mask(xr.DataArray(np.ones_like(dataset["lat"]), coords lat, attrs ...))
\* variant: the all-True mask is laid over the dataset's (lat, lon) grid
GlobalMaskOnGrid(dataset) ==
    BooleanMask([dims |-> <<"lat", "lon">>,
                 shape |-> <<Len(dataset.lat), Len(dataset.lon)>>,
                 coords |-> <<dataset.lat, dataset.lon>>,
                 dtype |-> "float",
                 vals |-> [idx \in Idx(<<Len(dataset.lat), Len(dataset.lon)>>) |-> 1],
                 attrs |-> << <<"mask_name", Str(<<"global_mask">>)>>,
                              <<"mask_type", Str(<<"global_mask">>)>>,
                              <<"mask_description",
                                Str(<<"A global mask including all ds lats.">>)>> >>])

GlobalMask(dataset) ==
    BooleanMask([dims |-> <<"lat">>,
                 shape |-> <<Len(dataset.lat)>>,
                 coords |-> <<dataset.lat>>,
                 dtype |-> "float",
                 vals |-> [idx \in Idx(<<Len(dataset.lat)>>) |-> 1],
                 attrs |-> << <<"mask_name", Str(<<"global_mask">>)>>,
                              <<"mask_type", Str(<<"global_mask">>)>>,
                              <<"mask_description",
                                Str(<<"A global mask including all ds lats.">>)>> >>])

\* atm_masks._create_an_implemented_mask
CreateAnImplementedMask(dataset, mask_name, landfrac_mask, oceanfrac_mask) ==
    IF mask_name = "global"
    THEN [status |-> "ok", msg |-> <<>>, mask |-> GlobalMask(dataset)]
    ELSE IF mask_name \in DOMAIN mask_latbnds_mapping
    THEN LET r == CreateLatitudeMask(dataset.lat,
                                     [kind |-> "tuple",
                                      elems |-> mask_latbnds_mapping[mask_name]],
                                     mask_name, <<-90, 90>>, "exclusive")
         IN  [status |-> r.status, msg |-> r.msg, mask |-> r.mask]
    ELSE IF mask_name = "land"
    THEN IF ~landfrac_mask.none \/ ~oceanfrac_mask.none
         THEN CreateLandMask(8, landfrac_mask, oceanfrac_mask)
         ELSE Raised("ValueError",
                     <<"to create the land mask provide either ",
                       "'landfrac_mask' or 'oceanfrac_mask'">>)
    ELSE IF mask_name = "ocean"
    THEN IF ~landfrac_mask.none \/ ~oceanfrac_mask.none
         THEN CreateSeaMask(8, oceanfrac_mask, landfrac_mask)
         ELSE Raised("ValueError",
                     <<"to create the ocean mask provide either ",
                       "'landfrac_mask' or 'oceanfrac_mask'">>)
    ELSE IF mask_name \in Range(ar6_regions)
    THEN CreateAr6RegionMask(dataset, mask_name)
    ELSE Raised("ValueError", <<"Mask '", mask_name, "' is not implemented.">>)

\* ------------------------------------------------ atm_masks.create_masks
\* A requested entry is [str, toks]: str tells whether it is a Python string,
\* toks its text as tokens, the operators "&" and "|" being tokens of their own.

\* variant: the entry's type is not looked at
IsStringUnchecked(mask) == TRUE

\* isinstance(mask, str)
IsString(mask) == mask.str

\* mask in implemented_masks
IsImplemented(toks) == Len(toks) = 1 /\ toks[1] \in Range(implemented_masks)

\* variant: the name is split on '&' and on '|' alike
RECURSIVE SplitOnAnyOperator(_, _)
SplitOnAnyOperator(toks, operation) ==
    IF "&" \notin Range(toks) /\ "|" \notin Range(toks) THEN <<toks>>
    ELSE LET p == CHOOSE i \in 1..Len(toks) :
                    toks[i] \in {"&", "|"} /\ \A j \in 1..(i - 1) : toks[j] \notin {"&", "|"}
         IN  <<SubSeq(toks, 1, p - 1)>>
             \o SplitOnAnyOperator(SubSeq(toks, p + 1, Len(toks)), operation)

\* variant: only the text before the first operator is kept
SplitKeepsFirst(toks, operation) ==
    IF operation \notin Range(toks) THEN <<toks>>
    ELSE <<SubSeq(toks, 1, (CHOOSE i \in 1..Len(toks) :
                              toks[i] = operation
                              /\ \A j \in 1..(i - 1) : toks[j] # operation) - 1)>>

\* mask_string.split(operation)
RECURSIVE Split(_, _)
Split(toks, operation) ==
    IF operation \notin Range(toks) THEN <<toks>>
    ELSE LET p == CHOOSE i \in 1..Len(toks) :
                    toks[i] = operation /\ \A j \in 1..(i - 1) : toks[j] # operation
         IN  <<SubSeq(toks, 1, p - 1)>> \o Split(SubSeq(toks, p + 1, Len(toks)), operation)

NoErr == [type |-> "none", msg |-> <<>>, stage |-> "none", name |-> <<>>]

\* variant: the compound loop hands the fraction fields on
OperandBuildWithFractions(dataset, mask_name, landfrac_mask, oceanfrac_mask) ==
    CreateAnImplementedMask(dataset, mask_name, landfrac_mask, oceanfrac_mask)

\* the atom build of the compound loop: _create_an_implemented_mask(dataset, mask)
\* without the fraction fields the caller supplied
OperandBuild(dataset, mask_name, landfrac_mask, oceanfrac_mask) ==
    CreateAnImplementedMask(dataset, mask_name, None, None)

\* for mask in mask_tuple: skip the ones already built, build the implemented
\* ones, raise on the others
RECURSIVE BuildOperands(_, _, _, _, _)
BuildOperands(run, mask_string, mask_tuple, created_masks, log) ==
    IF Len(mask_tuple) = 0
    THEN [err |-> NoErr, created_masks |-> created_masks, log |-> log]
    ELSE LET mask == Head(mask_tuple)
         IN  IF HasKey(created_masks, mask)
             THEN BuildOperands(run, mask_string, Tail(mask_tuple), created_masks, log)
             ELSE IF IsImplemented(mask)
             THEN LET r == OperandBuild(run.dataset, mask[1], run.landfrac_mask,
                                        run.oceanfrac_mask)
                  IN  IF r.status # "ok"
                      THEN [err |-> [type |-> r.status, msg |-> r.msg,
                                     stage |-> "operand-build", name |-> mask],
                            created_masks |-> created_masks,
                            log |-> Append(log, <<"build", mask>>)]
                      ELSE BuildOperands(run, mask_string, Tail(mask_tuple),
                                         SetKey(created_masks, mask, r.mask),
                                         Append(log, <<"build", mask>>))
             ELSE [err |-> [type |-> "ValueError",
                            msg |-> <<"Mask '">> \o mask \o <<"' in combination mask'">>
                                    \o mask_string \o <<"' is not implemented.">>,
                            stage |-> "operand-unknown", name |-> mask],
                   created_masks |-> created_masks,
                   log |-> log]

\* variant: the OR-compounds are queued ahead of the AND-compounds
QueueOrFirst(and_masks, or_masks) ==
    [k \in 1..Len(or_masks) |-> <<or_masks[k], "|">>]
    \o [k \in 1..Len(and_masks) |-> <<and_masks[k], "&">>]

\* zip([*and_masks, *or_masks], ["&"] * len(and_masks) + ["|"] * len(or_masks))
QueueOf(and_masks, or_masks) ==
    [k \in 1..Len(and_masks) |-> <<and_masks[k], "&">>]
    \o [k \in 1..Len(or_masks) |-> <<or_masks[k], "|">>]

\* variant: every compound is combined with the intersection
CombineAlwaysIntersection(operation, mask_list) == IntersectionOfMasks(mask_list)

\* the try block: union_of_masks for "|", intersection_of_masks for "&"
CombineQueued(operation, mask_list) ==
    IF operation = "|" THEN UnionOfMasks(mask_list) ELSE IntersectionOfMasks(mask_list)

\* ----------------------------------------- inputs of the coordinate calls
Coords == 0..MaxCoord

DimArrays == DistinctSeqs(Coords, MaxLen)

ModeInputs == range_modes \cup {"closed"}

\* well-formed (min, max) tuples, and the malformed shapes the code rejects
RangeTupleInputs ==
    {[kind |-> "tuple", elems |-> <<a, b>>] : a \in Coords, b \in Coords}
    \cup {[kind |-> "tuple", elems |-> <<0>>],
          [kind |-> "tuple", elems |-> <<0, 1, 2>>],
          [kind |-> "list", elems |-> <<0, 2>>]}

\* candidate values of a coordinate mask: lists and arrays may lie off the
\* grid and outside the valid domain (1, MaxCoord)
ValueInputs ==
    RangeTupleInputs
    \cup {[kind |-> k, elems |-> e] : k \in {"list", "ndarray"},
                                      e \in SeqsUpTo(0..(MaxCoord + 1), 2)}
    \cup {[kind |-> "float", elems |-> <<1>>]}

CoordValidRange == <<1, MaxCoord>>

\* ------------------------------------- inputs of the surface-type calls
\* fraction levels in tenths; 2 and 8, 3 and 7 are complementary
FracLevels == {2, 3, 8, 9}

Thresholds == {5, 8}

\* a fraction field over NCell cells, without a time dimension (t = 0) or with
\* a leading time dimension of length t; the slices after the first hold one
\* level c throughout
FieldsWithTime(t) ==
    IF t = 0
    THEN {[dims |-> <<"cell">>, shape |-> <<NCell>>, coords |-> <<[i \in 1..NCell |-> i]>>,
           dtype |-> "float", vals |-> v, attrs |-> <<>>] : v \in [Idx(<<NCell>>) -> FracLevels]}
    ELSE {[dims |-> <<"time", "cell">>, shape |-> <<t, NCell>>,
           coords |-> <<[i \in 1..t |-> i], [i \in 1..NCell |-> i]>>,
           dtype |-> "float",
           vals |-> [idx \in Idx(<<t, NCell>>) |-> IF idx[1] = 1 THEN v[<<idx[2]>>] ELSE c],
           attrs |-> <<>>] : v \in [Idx(<<NCell>>) -> FracLevels], c \in FracLevels}

FracFields == UNION {FieldsWithTime(t) : t \in 0..MaxTime}

OtherField ==
    [dims |-> <<"cell">>, shape |-> <<NCell>>, coords |-> <<[i \in 1..NCell |-> i]>>,
     dtype |-> "float", vals |-> [idx \in Idx(<<NCell>>) |-> 9], attrs |-> <<>>]

\* (same-type field, complementary field) pairs handed to a surface builder
FracArgPairs ==
    {<<None, None>>}
    \cup {<<Some(f), None>> : f \in FracFields}
    \cup {<<None, Some(f)>> : f \in FracFields}
    \cup {<<Some(f), Some(OtherField)>> : f \in FracFields}

\* ------------------------------------------- inputs of the combinators
\* provenance carried by an input mask: names may repeat or be missing, a key
\* may be on some masks only, a value may be bytes
AttrOptions ==
    { << <<"mask_name", Str(<<"nameA">>)>>, <<"mask_type", Str(<<"lat_mask">>)>>,
         <<"mask_description", Str(<<"d1">>)>> >>,
      << <<"mask_name", Str(<<"nameB">>)>>, <<"mask_type", Str(<<"lat_mask">>)>>,
         <<"mask_description", Str(<<"d2">>)>> >>,
      << <<"mask_name", Str(<<"nameA">>)>>, <<"mask_type", Str(<<"lat_mask">>)>>,
         <<"mask_description", Str(<<"d2">>)>> >>,
      << <<"mask_name", Str(<<"nameC">>)>>, <<"fraction_threshold", Num(8)>>,
         <<"mask_type", Str(<<"surface_type_mask">>)>>,
         <<"mask_description", Str(<<"d1">>)>> >>,
      << <<"mask_type", Bytes(<<"lat_mask">>)>>, <<"mask_description", Str(<<"d3">>)>> >>,
      << <<"mask_type", Str(<<"lat_mask">>)>>, <<"mask_description", Str(<<"d1">>)>> >> }

BoolVals == [Idx(<<NCell>>) -> BOOLEAN]

GridMask(v, a) ==
    [dims |-> <<"lat">>, shape |-> <<NCell>>, coords |-> <<[i \in 1..NCell |-> i]>>,
     dtype |-> "bool", vals |-> v, attrs |-> a]

PlainAttrs(i) ==
    << <<"mask_name", Str(<<"mask", ToString(i)>>)>>,
       <<"mask_type", Str(<<"lat_mask">>)>>,
       <<"mask_description", Str(<<"d", ToString(i)>>)>> >>

\* argument lists of 0..MaxMasks masks on one grid: every combination of
\* values under distinct names, and every combination of provenance
MaskLists ==
    UNION {{[i \in 1..n |-> GridMask(v[i], PlainAttrs(i))] : v \in [1..n -> BoolVals]}
           \cup {[i \in 1..n |-> GridMask([idx \in Idx(<<NCell>>) |-> idx[1] # i], a[i])] :
                    a \in [1..n -> AttrOptions]}
           : n \in 0..MaxMasks}

\* ------------------------------------------------ inputs of create_masks
\* one grid holding every band boundary, one holding none
Datasets ==
    {[lat |-> <<-90, -60, -30, 0, 30, 60, 90>>, lon |-> <<0, 180>>],
     [lat |-> <<-75, -45, -15, 15, 45, 75>>, lon |-> <<0>>],
     [lat |-> <<-90, -60, -30, 0, 30, 60, 90>>, lon |-> <<0>>]}

\* grids handed to create_ar6_region_mask directly: latitudes on both sides
\* of the catalog's region borders, one or two longitudes
RegionDatasets ==
    {[lat |-> l, lon |-> o] : l \in DistinctSeqs({-45, 15, 45, 60, 75}, MaxLen),
                              o \in {<<0>>, <<0, 180>>}}

\* abbreviations asked for: the catalog's, and one the catalog does not hold
RegionAbbrevs == Range(ar6_regions) \cup {"ZZZ"}

\* land and ocean fractions of cell (i, j), in tenths; not exact complements
LandLevel(i, j) == IF (i + j) % 3 = 0 THEN 9 ELSE IF (i + j) % 3 = 1 THEN 8 ELSE 1

OceanLevel(i, j) == IF (i + j) % 3 = 2 THEN 9 ELSE IF (i + j) % 3 = 1 THEN 1 ELSE 0

\* a fraction field on the dataset's grid, with a time dimension of length t
\* when t > 0; the slices after the first are 1.0 everywhere
DatasetField(dataset, t, Level(_, _)) ==
    LET nlat == Len(dataset.lat)
        nlon == Len(dataset.lon)
    IN  IF t = 0
        THEN [dims |-> <<"lat", "lon">>, shape |-> <<nlat, nlon>>,
              coords |-> <<dataset.lat, dataset.lon>>, dtype |-> "float",
              vals |-> [idx \in Idx(<<nlat, nlon>>) |-> Level(idx[1], idx[2])],
              attrs |-> <<>>]
        ELSE [dims |-> <<"time", "lat", "lon">>, shape |-> <<t, nlat, nlon>>,
              coords |-> <<[k \in 1..t |-> k], dataset.lat, dataset.lon>>,
              dtype |-> "float",
              vals |-> [idx \in Idx(<<t, nlat, nlon>>) |->
                           IF idx[1] = 1 THEN Level(idx[2], idx[3]) ELSE 10],
              attrs |-> <<>>]

\* (landfrac_mask, oceanfrac_mask) arguments
FractionArgs(dataset) ==
    {<<None, None>>,
     <<Some(DatasetField(dataset, 0, LandLevel)), None>>,
     <<None, Some(DatasetField(dataset, 0, OceanLevel))>>,
     <<Some(DatasetField(dataset, MaxTime, LandLevel)),
       Some(DatasetField(dataset, 1, OceanLevel))>>,
     <<None, Some(DatasetField(dataset, MaxTime, OceanLevel))>>}

Name(toks) == [str |-> TRUE, toks |-> toks]

\* requested entries: atoms, AND- and OR-compounds, and the faulty kinds
RequestNames ==
    {Name(<<"global">>), Name(<<"NH_polar">>), Name(<<"land">>), Name(<<"ocean">>),
     Name(<<"GIC">>),
     Name(<<"NH_polar", "&", "land">>),
     Name(<<"NH_polar", "&", "global">>),
     Name(<<"tropics", "|", "ocean">>),
     Name(<<"NH_polar", "|", "NWN">>),
     Name(<<"land", "&", "SH_midlat", "&", "global">>),
     Name(<<"arctic">>),
     Name(<<"NH_polar", "&", "arctic">>),
     Name(<<"tropics", "|", "NH_polar", "&", "land">>),
     [str |-> FALSE, toks |-> <<"123">>]}

Requests == SeqsUpTo(RequestNames, MaxReq)

\* -------------------------------------------------------------- actions
Idle == pc = "idle" /\ call = NoCall

CallRangeMode ==
    /\ Idle
    /\ \E t \in RangeTupleInputs, d \in DimArrays, m \in ModeInputs :
          call' = [op |-> "_range_mode", min_max_tuple |-> t, dim_array |-> d,
                   range_mode |-> m,
                   result |-> RangeMode(t, d, <<0, MaxCoord>>, m)]
    /\ pc' = "called"
    /\ UNCHANGED cm

CallCreateLatitudeMask ==
    /\ Idle
    /\ \E v \in ValueInputs, d \in DimArrays, m \in {"exclusive", "inclusive", "closed"} :
          call' = [op |-> "create_latitude_mask", values |-> v, dim_array |-> d,
                   range_mode |-> m, valid_range |-> CoordValidRange,
                   result |-> CreateLatitudeMask(d, v, "band", CoordValidRange, m)]
    /\ pc' = "called"
    /\ UNCHANGED cm

CallCreateLongitudeMask ==
    /\ Idle
    /\ \E v \in ValueInputs, d \in DimArrays, m \in {"exclusive", "inclusive_min"} :
          call' = [op |-> "create_longitude_mask", values |-> v, dim_array |-> d,
                   range_mode |-> m, valid_range |-> CoordValidRange,
                   result |-> CreateLongitudeMask(d, v, "sector", CoordValidRange, m)]
    /\ pc' = "called"
    /\ UNCHANGED cm

CallCreateLandMask ==
    /\ Idle
    /\ \E fs \in FracArgPairs, t \in Thresholds :
          call' = [op |-> "create_land_mask", fraction_threshold |-> t,
                   same |-> fs[1], complementary |-> fs[2],
                   result |-> CreateLandMask(t, fs[1], fs[2])]
    /\ pc' = "called"
    /\ UNCHANGED cm

CallCreateSeaMask ==
    /\ Idle
    /\ \E fs \in FracArgPairs, t \in Thresholds :
          call' = [op |-> "create_sea_mask", fraction_threshold |-> t,
                   same |-> fs[1], complementary |-> fs[2],
                   result |-> CreateSeaMask(t, fs[1], fs[2])]
    /\ pc' = "called"
    /\ UNCHANGED cm

CallIntersectionOfMasks ==
    /\ Idle
    /\ \E ms \in MaskLists :
          call' = [op |-> "intersection_of_masks", masks |-> ms,
                   result |-> IntersectionOfMasks(ms)]
    /\ pc' = "called"
    /\ UNCHANGED cm

CallUnionOfMasks ==
    /\ Idle
    /\ \E ms \in MaskLists :
          call' = [op |-> "union_of_masks", masks |-> ms,
                   result |-> UnionOfMasks(ms)]
    /\ pc' = "called"
    /\ UNCHANGED cm

CallCreateAr6RegionMask ==
    /\ Idle
    /\ \E ds \in RegionDatasets, abbrev \in RegionAbbrevs :
          call' = [op |-> "create_ar6_region_mask", data |-> ds,
                   region_abbrev |-> abbrev,
                   result |-> CreateAr6RegionMask(ds, abbrev)]
    /\ pc' = "called"
    /\ UNCHANGED cm

\* create_masks is entered: its locals are initialised (lines 491-493)
CreateMasksStart ==
    /\ Idle
    /\ \E ds \in Datasets, req \in Requests :
          \E fr \in FractionArgs(ds) :
             cm' = [phase |-> "scan", dataset |-> ds, masks |-> req,
                    landfrac_mask |-> fr[1], oceanfrac_mask |-> fr[2],
                    created_masks |-> <<>>, and_masks |-> <<>>, or_masks |-> <<>>,
                    queue |-> <<>>, i |-> 1, err |-> NoErr, log |-> <<>>]
    /\ pc' = "running"
    /\ UNCHANGED call

\* one iteration of the first loop: type check, atom build or classification
CreateMasksScan ==
    /\ pc = "running"
    /\ cm.phase = "scan"
    /\ cm.i <= Len(cm.masks)
    /\ LET mask == cm.masks[cm.i]
           fail(type, msg, stage) ==
               [cm EXCEPT !.phase = "error",
                          !.err = [type |-> type, msg |-> msg, stage |-> stage,
                                   name |-> mask.toks]]
       IN  IF ~IsString(mask)
           THEN /\ cm' = fail("TypeError",
                              <<"Mask '">> \o mask.toks \o <<"' is not a string.">>,
                              "type-check")
                /\ pc' = "called"
           ELSE IF IsImplemented(mask.toks)
           THEN LET r == CreateAnImplementedMask(cm.dataset, mask.toks[1],
                                                 cm.landfrac_mask, cm.oceanfrac_mask)
                IN  IF r.status # "ok"
                    THEN /\ cm' = [fail(r.status, r.msg, "atom-build") EXCEPT
                                     !.log = Append(cm.log, <<"build", mask.toks>>)]
                         /\ pc' = "called"
                    ELSE /\ cm' = [cm EXCEPT
                                     !.created_masks = SetKey(cm.created_masks,
                                                              mask.toks, r.mask),
                                     !.log = Append(cm.log, <<"build", mask.toks>>),
                                     !.i = cm.i + 1]
                         /\ pc' = pc
           ELSE IF "&" \in Range(mask.toks)
           THEN /\ cm' = [cm EXCEPT !.and_masks = Append(cm.and_masks, mask.toks),
                                    !.i = cm.i + 1]
                /\ pc' = pc
           ELSE IF "|" \in Range(mask.toks)
           THEN /\ cm' = [cm EXCEPT !.or_masks = Append(cm.or_masks, mask.toks),
                                    !.i = cm.i + 1]
                /\ pc' = pc
           ELSE /\ cm' = fail("ValueError",
                              <<"Mask '">> \o mask.toks
                                 \o <<"' is not implemented and is not a combination mask.">>,
                              "unknown-name")
                /\ pc' = "called"
    /\ UNCHANGED call

\* the first loop is over: zip([*and_masks, *or_masks], ["&"]*n + ["|"]*m)
CreateMasksQueue ==
    /\ pc = "running"
    /\ cm.phase = "scan"
    /\ cm.i > Len(cm.masks)
    /\ cm' = [cm EXCEPT
                !.phase = "combine",
                !.queue = QueueOf(cm.and_masks, cm.or_masks),
                !.i = 1]
    /\ UNCHANGED <<pc, call>>

\* one iteration of the second loop: split, build the missing operands,
\* combine, store under the compound's own string
CreateMasksCombine ==
    /\ pc = "running"
    /\ cm.phase = "combine"
    /\ cm.i <= Len(cm.queue)
    /\ LET mask_string == cm.queue[cm.i][1]
           operation == cm.queue[cm.i][2]
           mask_tuple == Split(mask_string, operation)
           built == BuildOperands(cm, mask_string, mask_tuple, cm.created_masks, cm.log)
       IN  IF built.err.type # "none"
           THEN /\ cm' = [cm EXCEPT !.phase = "error", !.err = built.err,
                                    !.created_masks = built.created_masks,
                                    !.log = built.log]
                /\ pc' = "called"
           ELSE LET mask_list == [k \in 1..Len(mask_tuple) |->
                                     GetKey(built.created_masks, mask_tuple[k])]
                    r == CombineQueued(operation, mask_list)
                IN  IF r.status # "ok"
                    THEN /\ cm' = [cm EXCEPT
                                     !.phase = "error",
                                     !.err = [type |-> "ValueError",
                                              msg |-> <<"Error combining masks for '">>
                                                      \o mask_string \o <<"': ">>,
                                              stage |-> "combine",
                                              name |-> mask_string],
                                     !.created_masks = built.created_masks,
                                     !.log = built.log]
                         /\ pc' = "called"
                    ELSE /\ cm' = [cm EXCEPT
                                     !.created_masks = SetKey(built.created_masks,
                                                              mask_string, r.mask),
                                     !.log = Append(built.log, <<"combine", mask_string>>),
                                     !.i = cm.i + 1]
                         /\ pc' = pc
    /\ UNCHANGED call

\* return created_masks
CreateMasksReturn ==
    /\ pc = "running"
    /\ cm.phase = "combine"
    /\ cm.i > Len(cm.queue)
    /\ cm' = [cm EXCEPT !.phase = "done"]
    /\ pc' = "called"
    /\ UNCHANGED call

\* ------------------------------- utils.xarray_operations_with_alignment
\* Operands are DataArrays of numbers; a quotient is kept as the pair of its
\* numerator and denominator (true division gives a float, inf or nan).
Quotient(x, y) == [num |-> x, den |-> y]

RECURSIVE Pow(_, _)
Pow(x, y) == IF y = 0 THEN 1 ELSE x * Pow(x, y - 1)

\* arithmetic gives a numeric array
Numeric(arr) == [arr EXCEPT !.dtype = "float"]

\* DataArray.__add__, __sub__, __mul__, __truediv__, __pow__
DaAdd(a, b) == Numeric(BinOp(a, b, LAMBDA x, y : x + y))

DaSub(a, b) == Numeric(BinOp(a, b, LAMBDA x, y : x - y))

DaMul(a, b) == Numeric(BinOp(a, b, LAMBDA x, y : x * y))

DaTrueDiv(a, b) == Numeric(BinOp(a, b, LAMBDA x, y : Quotient(x, y)))

DaPow(a, b) == Numeric(BinOp(a, b, LAMBDA x, y : Pow(x, y)))

\* the keys of the operations dict
operations == {"add", "subtract", "multiply", "divide", "power"}

\* the index of dimension d is the same in a and b, or one of them lacks d
SameIndex(a, b) ==
    \A d \in Range(a.dims) \cap Range(b.dims) :
       a.coords[DimPos(a.dims, d)] = b.coords[DimPos(b.dims, d)]

\* variant: join="inner", which drops the labels that differ and never fails
CheckAlignmentInner(args) == [ok |-> TRUE, aligned |-> args]

\* check_alignment with the default {"join": "exact", "copy": True}: the
\* objects themselves when every shared index is equal, False otherwise
CheckAlignment(args) ==
    IF \A i, j \in 1..Len(args) : SameIndex(args[i], args[j])
    THEN [ok |-> TRUE, aligned |-> args]
    ELSE [ok |-> FALSE, aligned |-> <<>>]

NoResult == [status |-> "none"]

Failed(status) == [status |-> status, value |-> NoResult]

\* _operation_with_alignment: the unbound method of the first operand's class
\* is called with the whole aligned tuple as its positional arguments
OperationWithAlignment(args, operation) ==
    LET checked == CheckAlignment(args)
    IN  IF ~checked.ok THEN Failed("ValueError")
        ELSE IF Len(checked.aligned) = 0 THEN Failed("IndexError")
        ELSE IF operation \notin operations THEN Failed("ValueError")
        ELSE IF Len(checked.aligned) # 2 THEN Failed("TypeError")
        ELSE LET a == checked.aligned[1]
                 b == checked.aligned[2]
             IN  [status |-> "ok",
                  value |-> CASE operation = "add" -> DaAdd(a, b)
                              [] operation = "subtract" -> DaSub(a, b)
                              [] operation = "multiply" -> DaMul(a, b)
                              [] operation = "divide" -> DaTrueDiv(a, b)
                              [] operation = "power" -> DaPow(a, b)]

multiply_with_alignment(args) == OperationWithAlignment(args, "multiply")

divide_with_alignment(a, b) == OperationWithAlignment(<<a, b>>, "divide")

add_with_alignment(args) == OperationWithAlignment(args, "add")

subtract_with_alignment(a, b) == OperationWithAlignment(<<a, b>>, "subtract")

power_with_alignment(a, b) == OperationWithAlignment(<<a, b>>, "power")

\* the dimensions of all the objects, in the order they are first met
RECURSIVE UnionDims(_)
UnionDims(args) ==
    IF Len(args) = 0 THEN <<>>
    ELSE LET before == UnionDims(SubSeq(args, 1, Len(args) - 1))
         IN  before \o SelectSeq(args[Len(args)].dims, LAMBDA d : d \notin Range(before))

\* xr.broadcast(*aligned): every object is expanded to the common dimensions
XrBroadcast(args) ==
    LET dims == UnionDims(args)
        owner(d) == CHOOSE i \in 1..Len(args) :
                       /\ d \in Range(args[i].dims)
                       /\ \A j \in 1..(i - 1) : d \notin Range(args[j].dims)
        coords == [p \in 1..Len(dims) |->
                      args[owner(dims[p])].coords[DimPos(args[owner(dims[p])].dims, dims[p])]]
        shape == [p \in 1..Len(dims) |-> Len(coords[p])]
    IN  [i \in 1..Len(args) |->
            [args[i] EXCEPT
               !.dims = dims, !.shape = shape, !.coords = coords,
               !.vals = [idx \in Idx(shape) |->
                           args[i].vals[[p \in 1..Len(args[i].dims) |->
                                            idx[DimPos(dims, args[i].dims[p])]]]]]]

\* broadcast_with_alignment with broadcast_kwargs=None
broadcast_with_alignment(args) ==
    LET checked == CheckAlignment(args)
    IN  IF ~checked.ok THEN Failed("ValueError")
        ELSE [status |-> "ok", value |-> XrBroadcast(checked.aligned)]

\* operands: six arrays over dimension x on three different indexes (one a
\* reordering of another), and one array over dimension y
NumArray(dim, coord, v) ==
    [dims |-> <<dim>>, shape |-> <<Len(coord)>>, coords |-> <<coord>>,
     dtype |-> "float", vals |-> [idx \in Idx(<<Len(coord)>>) |-> v[idx[1]]],
     attrs |-> <<>>]

AlignOperands ==
    {NumArray("x", c, v) : c \in {<<10, 20>>, <<10, 30>>, <<20, 10>>},
                           v \in {<<0, 2>>, <<3, 1>>}}
    \cup {NumArray("y", <<5>>, <<2>>)}

\* positional argument lists of 0..MaxArgs operands
AlignArgLists == SeqsUpTo(AlignOperands, MaxArgs)

CallAddWithAlignment ==
    /\ Idle
    /\ \E args \in AlignArgLists :
          call' = [op |-> "add_with_alignment", operation |-> "add", args |-> args,
                   result |-> add_with_alignment(args)]
    /\ pc' = "called"
    /\ UNCHANGED cm

CallMultiplyWithAlignment ==
    /\ Idle
    /\ \E args \in AlignArgLists :
          call' = [op |-> "multiply_with_alignment", operation |-> "multiply",
                   args |-> args, result |-> multiply_with_alignment(args)]
    /\ pc' = "called"
    /\ UNCHANGED cm

CallSubtractWithAlignment ==
    /\ Idle
    /\ \E a \in AlignOperands, b \in AlignOperands :
          call' = [op |-> "subtract_with_alignment", operation |-> "subtract",
                   args |-> <<a, b>>, result |-> subtract_with_alignment(a, b)]
    /\ pc' = "called"
    /\ UNCHANGED cm

CallDivideWithAlignment ==
    /\ Idle
    /\ \E a \in AlignOperands, b \in AlignOperands :
          call' = [op |-> "divide_with_alignment", operation |-> "divide",
                   args |-> <<a, b>>, result |-> divide_with_alignment(a, b)]
    /\ pc' = "called"
    /\ UNCHANGED cm

CallPowerWithAlignment ==
    /\ Idle
    /\ \E a \in AlignOperands, b \in AlignOperands :
          call' = [op |-> "power_with_alignment", operation |-> "power",
                   args |-> <<a, b>>, result |-> power_with_alignment(a, b)]
    /\ pc' = "called"
    /\ UNCHANGED cm

CallBroadcastWithAlignment ==
    /\ Idle
    /\ \E args \in AlignArgLists :
          call' = [op |-> "broadcast_with_alignment", operation |-> "broadcast",
                   args |-> args, result |-> broadcast_with_alignment(args)]
    /\ pc' = "called"
    /\ UNCHANGED cm

\* ------------------------------------- mask_utils compatibility checks
\* Here an array is [kind, dtype, dims, shape, indexed, vals]: kind is the
\* Python type, dtype is "none" for an object without a dtype attribute,
\* indexed tells whether its dimensions carry coordinate labels, vals holds
\* its cells in tenths.

\* hasattr(cond, 'dtype')
HasDtype(x) == x.dtype # "none"

\* xr.DataArray(cond) for a numpy array: dimensions dim_0, dim_1, ... without labels
AsDataArray(x) ==
    IF x.kind = "ndarray"
    THEN [x EXCEPT !.kind = "DataArray",
                   !.dims = [p \in 1..Len(x.shape) |-> "dim_" \o ToString(p - 1)],
                   !.indexed = FALSE]
    ELSE x

\* xr.broadcast(data, cond) raises: a shared dimension has two sizes and labels
\* are missing on a side, so that the outer join cannot reconcile them
BroadcastRaises(data, cond) ==
    \E d \in Range(data.dims) \cap Range(cond.dims) :
       /\ ~(data.indexed /\ cond.indexed)
       /\ data.shape[DimPos(data.dims, d)] # cond.shape[DimPos(cond.dims, d)]

Checked(status, ret) == [status |-> status, ret |-> ret]

\* mask_utils.is_where_compatible; the message of the dtype branch reads
\* cond.dtype, which raises AttributeError for an object without one
IsWhereCompatible(data, cond, exit_on_error) ==
    IF ~HasDtype(cond) THEN Checked("AttributeError", "none")
    ELSE IF cond.dtype # "bool"
    THEN IF exit_on_error THEN Checked("TypeError", "none") ELSE Checked("ok", "False")
    ELSE IF BroadcastRaises(data, AsDataArray(cond))
    THEN IF exit_on_error THEN Checked("ValueError", "none") ELSE Checked("ok", "False")
    ELSE Checked("ok", "True")

\* mask_utils.is_float_mask_compatible with min_value=0.0, max_value=1.0; its
\* message uses getattr(mask, 'dtype', None)
IsFloatMaskCompatible(data, mask, exit_on_error, check_range) ==
    IF ~HasDtype(mask) \/ mask.dtype # "float64"
    THEN IF exit_on_error THEN Checked("TypeError", "none") ELSE Checked("ok", "False")
    ELSE IF BroadcastRaises(data, AsDataArray(mask))
    THEN IF exit_on_error THEN Checked("ValueError", "none") ELSE Checked("ok", "False")
    ELSE IF check_range /\ \E k \in 1..Len(mask.vals) : mask.vals[k] < 0 \/ mask.vals[k] > 10
    THEN IF exit_on_error THEN Checked("ValueError", "none") ELSE Checked("ok", "False")
    ELSE Checked("ok", "True")

\* the data to be masked: labelled 1-D and 2-D grids, and an unlabelled array
CompatData ==
    {[kind |-> "DataArray", dtype |-> "float64", dims |-> <<"lat">>, shape |-> <<2>>,
      indexed |-> TRUE, vals |-> <<>>],
     [kind |-> "DataArray", dtype |-> "float64", dims |-> <<"lat", "lon">>,
      shape |-> <<2, 3>>, indexed |-> TRUE, vals |-> <<>>],
     [kind |-> "DataArray", dtype |-> "float64", dims |-> <<"dim_0">>, shape |-> <<2>>,
      indexed |-> FALSE, vals |-> <<>>]}

\* the dtype of a condition and the cells that go with it
CompatCells ==
    {<<"bool", <<>> >>, <<"int64", <<>> >>, <<"float64", <<5, 10>> >>,
     <<"float64", <<5, 12>> >>}

\* conditions and weights: DataArrays, numpy arrays, and the objects without
\* a dtype attribute (a list, a Python bool)
CompatConds ==
    {[kind |-> "DataArray", dtype |-> c[1], dims |-> g[1], shape |-> g[2],
      indexed |-> g[3], vals |-> c[2]] :
        c \in CompatCells,
        g \in {<< <<"lat">>, <<2>>, TRUE>>, << <<"lat">>, <<3>>, TRUE>>,
               << <<"lat">>, <<3>>, FALSE>>, << <<"time">>, <<1>>, TRUE>>}}
    \cup {[kind |-> "ndarray", dtype |-> c[1], dims |-> <<>>, shape |-> sh,
           indexed |-> FALSE, vals |-> c[2]] :
             c \in CompatCells, sh \in {<<2>>, <<3>>}}
    \cup {[kind |-> k, dtype |-> "none", dims |-> <<>>, shape |-> <<>>,
           indexed |-> FALSE, vals |-> <<>>] : k \in {"list", "bool"}}

CallIsWhereCompatible ==
    /\ Idle
    /\ \E data \in CompatData, cond \in CompatConds, exit_on_error \in BOOLEAN :
          call' = [op |-> "is_where_compatible", data |-> data, cond |-> cond,
                   exit_on_error |-> exit_on_error,
                   result |-> IsWhereCompatible(data, cond, exit_on_error)]
    /\ pc' = "called"
    /\ UNCHANGED cm

CallIsFloatMaskCompatible ==
    /\ Idle
    /\ \E data \in CompatData, mask \in CompatConds, exit_on_error \in BOOLEAN,
          check_range \in BOOLEAN :
          call' = [op |-> "is_float_mask_compatible", data |-> data, cond |-> mask,
                   exit_on_error |-> exit_on_error, check_range |-> check_range,
                   result |-> IsFloatMaskCompatible(data, mask, exit_on_error,
                                                    check_range)]
    /\ pc' = "called"
    /\ UNCHANGED cm

\* ------------------------------------------------- utils.save_utils
\* The file system as far as the helpers touch it: what the target path
\* holds ("absent" when there is no such file) and whether its parent
\* directory exists. An overwrite argument is [t, v]: its Python type and its
\* text. The user's answer to the prompt is a sequence of characters.
Whitespace == {" ", "\t"}

\* str.strip()
RECURSIVE LStrip(_)
LStrip(chars) ==
    IF Len(chars) > 0 /\ Head(chars) \in Whitespace THEN LStrip(Tail(chars)) ELSE chars

RECURSIVE RStrip(_)
RStrip(chars) ==
    IF Len(chars) > 0 /\ chars[Len(chars)] \in Whitespace
    THEN RStrip(SubSeq(chars, 1, Len(chars) - 1)) ELSE chars

Strip(chars) == RStrip(LStrip(chars))

\* str.lower() on the letters an answer is typed with
Lower(chars) ==
    [k \in 1..Len(chars) |->
        CASE chars[k] = "Y" -> "y"
          [] chars[k] = "N" -> "n"
          [] chars[k] = "E" -> "e"
          [] chars[k] = "S" -> "s"
          [] OTHER -> chars[k]]

Decision(status, write, prompted) ==
    [status |-> status, write |-> write, prompted |-> prompted]

\* variant: every overwrite value allows the write
OverwriteHandlerAlways(overwrite, answer) == Decision("ok", TRUE, FALSE)

\* save_utils.overwrite_handler; answer is what input() returns when asked
OverwriteHandler(overwrite, answer) ==
    IF overwrite = [t |-> "bool", v |-> "True"] THEN Decision("ok", TRUE, FALSE)
    ELSE IF overwrite = [t |-> "bool", v |-> "False"] THEN Decision("ok", FALSE, FALSE)
    ELSE IF overwrite = [t |-> "str", v |-> "prompt"]
    THEN Decision("ok", Lower(Strip(answer)) = <<"y">>, TRUE)
    ELSE Decision("ValueError", FALSE, FALSE)

\* save_utils.check_filepath
CheckFilepath(fs, overwrite, answer) ==
    LET handled == IF fs.target # "absent" THEN OverwriteHandler(overwrite, answer)
                   ELSE Decision("ok", TRUE, FALSE)
    IN  [status |-> handled.status,
         write |-> handled.write,
         prompted |-> handled.prompted,
         fs |-> IF handled.status = "ok" /\ handled.write /\ ~fs.parent
                THEN [fs EXCEPT !.parent = TRUE] ELSE fs]

\* the body shared by save_figure and save_xarray_to_netcdf: content is what
\* fig.savefig / dataset.to_netcdf puts at the target
SaveTo(fs, content, overwrite, answer) ==
    LET checked == CheckFilepath(fs, overwrite, answer)
    IN  IF checked.status # "ok"
        THEN [status |-> checked.status, ret |-> "none", fs |-> checked.fs,
              prompted |-> checked.prompted]
        ELSE IF checked.write
        THEN [status |-> "ok", ret |-> "True",
              fs |-> [checked.fs EXCEPT !.target = content],
              prompted |-> checked.prompted]
        ELSE [status |-> "ok", ret |-> "False", fs |-> checked.fs,
              prompted |-> checked.prompted]

\* save_utils.save_figure
SaveFigure(fs, overwrite, answer) == SaveTo(fs, "figure", overwrite, answer)

\* save_utils.save_xarray_to_netcdf
SaveXarrayToNetcdf(fs, overwrite, answer) == SaveTo(fs, "netcdf", overwrite, answer)

\* target missing with or without its directory, or holding an earlier file
FileSystems ==
    {[target |-> "absent", parent |-> FALSE], [target |-> "absent", parent |-> TRUE],
     [target |-> "old", parent |-> TRUE]}

OverwriteInputs ==
    {[t |-> "bool", v |-> "True"], [t |-> "bool", v |-> "False"],
     [t |-> "str", v |-> "prompt"], [t |-> "str", v |-> "Prompt"],
     [t |-> "str", v |-> "always"], [t |-> "int", v |-> "1"],
     [t |-> "NoneType", v |-> "None"]}

\* what the user may type at the prompt
Answers ==
    {<<"y">>, <<"Y">>, <<" ", "y", " ">>, <<"n">>, <<"N">>, <<"y", "e", "s">>,
     <<"y", " ">>, <<>>, <<" ">>}

CallSaveFigure ==
    /\ Idle
    /\ \E fs \in FileSystems, overwrite \in OverwriteInputs, answer \in Answers :
          call' = [op |-> "save_figure", fs |-> fs, overwrite |-> overwrite,
                   answer |-> answer, content |-> "figure",
                   result |-> SaveFigure(fs, overwrite, answer)]
    /\ pc' = "called"
    /\ UNCHANGED cm

CallSaveXarrayToNetcdf ==
    /\ Idle
    /\ \E fs \in FileSystems, overwrite \in OverwriteInputs, answer \in Answers :
          call' = [op |-> "save_xarray_to_netcdf", fs |-> fs, overwrite |-> overwrite,
                   answer |-> answer, content |-> "netcdf",
                   result |-> SaveXarrayToNetcdf(fs, overwrite, answer)]
    /\ pc' = "called"
    /\ UNCHANGED cm

\* --------------------------------------------- the preset band masks
\* latitude grids of up to MaxLen points, on and between the band boundaries
BandLats == {-90, -75, -60, -45, -30, -15, 0, 15, 30, 45, 60, 75, 90}

BandGrids == DistinctSeqs(BandLats, MaxLen)

\* the presets _create_an_implemented_mask builds from the latitudes alone
LatPresets == {"global"} \cup DOMAIN mask_latbnds_mapping

\* every latitude preset is built for one dataset
CallCreatePresetMasks ==
    /\ Idle
    /\ \E lat \in BandGrids :
          LET dataset == [lat |-> lat, lon |-> <<0>>]
          IN  call' = [op |-> "_create_an_implemented_mask", dataset |-> dataset,
                       result |-> [name \in LatPresets |->
                                      CreateAnImplementedMask(dataset, name, None, None)]]
    /\ pc' = "called"
    /\ UNCHANGED cm

\* the caller drops the result; the next call starts from a clean slate
Return ==
    /\ pc = "called"
    /\ pc' = "idle"
    /\ call' = NoCall
    /\ cm' = NoRun

Init ==
    /\ pc = "idle"
    /\ call = NoCall
    /\ cm = NoRun

NextCoord == CallRangeMode \/ CallCreateLatitudeMask \/ CallCreateLongitudeMask \/ Return

SpecCoord == Init /\ [][NextCoord]_vars

NextSurface == CallCreateLandMask \/ CallCreateSeaMask \/ Return

SpecSurface == Init /\ [][NextSurface]_vars

NextCombine == CallIntersectionOfMasks \/ CallUnionOfMasks \/ Return

SpecCombine == Init /\ [][NextCombine]_vars

NextRegion == CallCreateAr6RegionMask \/ Return

SpecRegion == Init /\ [][NextRegion]_vars

NextAlign ==
    \/ CallAddWithAlignment
    \/ CallMultiplyWithAlignment
    \/ CallSubtractWithAlignment
    \/ CallDivideWithAlignment
    \/ CallPowerWithAlignment
    \/ CallBroadcastWithAlignment
    \/ Return

SpecAlign == Init /\ [][NextAlign]_vars

NextCompat == CallIsWhereCompatible \/ CallIsFloatMaskCompatible \/ Return

SpecCompat == Init /\ [][NextCompat]_vars

NextSave == CallSaveFigure \/ CallSaveXarrayToNetcdf \/ Return

SpecSave == Init /\ [][NextSave]_vars

NextBands == CallCreatePresetMasks \/ Return

SpecBands == Init /\ [][NextBands]_vars

NextMasks ==
    \/ CreateMasksStart
    \/ CreateMasksScan
    \/ CreateMasksQueue
    \/ CreateMasksCombine
    \/ CreateMasksReturn
    \/ Return

SpecMasks == Init /\ [][NextMasks]_vars

\* ================================================================ claims
WellFormedTuple(t) == t.kind = "tuple" /\ Len(t.elems) = 2

StrictlyInside(dim_array, t) ==
    {v \in Range(dim_array) : t.elems[1] < v /\ v < t.elems[2]}

\* C1: in 'exclusive' mode the range resolver returns exactly the grid
\* coordinates v with min < v < max; a coordinate equal to min or to max is
\* never returned.
C1_ExclusiveOpenInterval ==
    (/\ call.op = "_range_mode"
     /\ call.range_mode = "exclusive"
     /\ WellFormedTuple(call.min_max_tuple))
    => /\ call.result.status = "ok"
       /\ Range(call.result.values) = StrictlyInside(call.dim_array, call.min_max_tuple)
       /\ Len(call.result.values)
            = Cardinality(StrictlyInside(call.dim_array, call.min_max_tuple))
       /\ call.min_max_tuple.elems[1] \notin Range(call.result.values)
       /\ call.min_max_tuple.elems[2] \notin Range(call.result.values)

\* C1 witness: both endpoints lie on the grid, with a coordinate between them
C1_Witness ==
    /\ call.op = "_range_mode"
    /\ call.range_mode = "exclusive"
    /\ WellFormedTuple(call.min_max_tuple)
    /\ call.min_max_tuple.elems[1] \in Range(call.dim_array)
    /\ call.min_max_tuple.elems[2] \in Range(call.dim_array)
    /\ Len(call.result.values) = 1
    /\ Len(call.dim_array) = 3

\* C2: each of the four modes returns what 'exclusive' returns for the same
\* tuple and grid.
C2_AllModesAsExclusive ==
    (/\ call.op = "_range_mode"
     /\ call.range_mode \in range_modes
     /\ WellFormedTuple(call.min_max_tuple))
    => LET excl == RangeMode(call.min_max_tuple, call.dim_array, <<0, MaxCoord>>,
                             "exclusive")
       IN  /\ call.result.status = excl.status
           /\ call.result.values = excl.values
           /\ call.result.warned = (call.range_mode # "exclusive")

\* C2 witness: an inclusive call whose endpoints are both on the grid
C2_Witness ==
    /\ call.op = "_range_mode"
    /\ call.range_mode = "inclusive"
    /\ WellFormedTuple(call.min_max_tuple)
    /\ call.min_max_tuple.elems[1] \in Range(call.dim_array)
    /\ call.min_max_tuple.elems[2] \in Range(call.dim_array)
    /\ call.min_max_tuple.elems[1] < call.min_max_tuple.elems[2]
    /\ call.result.status = "ok"
    /\ call.result.warned

IsSurfaceCall == call.op \in {"create_land_mask", "create_sea_mask"}

NoTime(f) == ~f.none /\ ~HasDim(f.arr, "time")

C8_ComplementOrMissing ==
    /\ (IsSurfaceCall /\ call.same.none /\ NoTime(call.complementary))
       => /\ call.result.status = "ok"
          /\ DOMAIN call.result.mask.vals = DOMAIN call.complementary.arr.vals
          /\ \A idx \in DOMAIN call.complementary.arr.vals :
                call.result.mask.vals[idx]
                  = (10 - call.complementary.arr.vals[idx] > call.fraction_threshold)
    /\ (/\ call.op = "create_land_mask"
        /\ call.same.none
        /\ NoTime(call.complementary)
        /\ call.complementary.arr.vals = (<<1>> :> 3 @@ <<2>> :> 9)
        /\ call.fraction_threshold = 8)
       => call.result.mask.vals = (<<1>> :> FALSE @@ <<2>> :> FALSE)
    /\ (IsSurfaceCall /\ call.same.none /\ call.complementary.none)
       => /\ call.result.status = "ValueError"
          /\ call.result.mask = NoMask

\* C8 witness: the land mask of sea fractions [0.3, 0.9] at threshold 0.8
C8_Witness ==
    /\ call.op = "create_land_mask"
    /\ call.same.none
    /\ NoTime(call.complementary)
    /\ call.complementary.arr.vals = (<<1>> :> 3 @@ <<2>> :> 9)
    /\ call.fraction_threshold = 8
    /\ call.result.status = "ok"

\* the fraction field a surface builder works from
UsedField == IF call.same.none THEN call.complementary ELSE call.same

\* the fraction the builder should threshold at idx of the first time slice
FirstSliceFraction(idx) ==
    LET v == UsedField.arr.vals[<<1>> \o idx]
    IN  IF call.same.none THEN 10 - v ELSE v

\* C9: for both builders and whichever field is used, a time dimension of
\* any length >= 1 is collapsed to its first slice: the call succeeds, the
\* mask has no time dimension and equals the threshold of the first slice.
C9_TimeCollapsedToFirstSlice ==
    (IsSurfaceCall /\ ~UsedField.none /\ HasDim(UsedField.arr, "time"))
    => /\ call.result.status = "ok"
       /\ ~HasDim(call.result.mask, "time")
       /\ call.result.mask.shape = <<NCell>>
       /\ \A idx \in Idx(<<NCell>>) :
             call.result.mask.vals[idx]
               = (FirstSliceFraction(idx) > call.fraction_threshold)

CoordCall == call.op \in {"create_latitude_mask", "create_longitude_mask"}

\* the target-value set of a coordinate-mask call
TargetValues ==
    IF call.values.kind = "tuple"
    THEN StrictlyInside(call.dim_array, call.values)
    ELSE Range(call.values.elems)

InValidRange(values, valid_range) ==
    \A i \in 1..Len(values.elems) :
        values.elems[i] >= valid_range[1] /\ values.elems[i] <= valid_range[2]

\* C10: the coordinate mask has one entry per coordinate and is True at a
\* position iff the coordinate there is a member of the target-value set (the
\* listed values, or the resolver's output for a tuple); listed values that
\* are not on the grid select nothing and raise nothing.
C10_MaskIsMembership ==
    /\ (CoordCall /\ call.result.status = "ok")
       => /\ call.result.mask.shape = <<Len(call.dim_array)>>
          /\ call.result.mask.coords = <<call.dim_array>>
          /\ DOMAIN call.result.mask.vals = {<<i>> : i \in 1..Len(call.dim_array)}
          /\ \A i \in 1..Len(call.dim_array) :
                call.result.mask.vals[<<i>>] = (call.dim_array[i] \in TargetValues)
    /\ (/\ CoordCall
        /\ call.values.kind \in {"list", "ndarray"}
        /\ InValidRange(call.values, call.valid_range))
       => call.result.status = "ok"

\* C10 witness: a list with one value on the grid and one off it
C10_Witness ==
    /\ CoordCall
    /\ call.values.kind = "list"
    /\ call.result.status = "ok"
    /\ \E i \in 1..Len(call.values.elems) : call.values.elems[i] \notin Range(call.dim_array)
    /\ \E i \in 1..Len(call.dim_array) : call.result.mask.vals[<<i>>]
    /\ \E i \in 1..Len(call.dim_array) : ~call.result.mask.vals[<<i>>]

CombinatorCall == call.op \in {"intersection_of_masks", "union_of_masks"}

\* C3: for N >= 1 masks on one grid the intersection is True at a cell iff
\* every input is True there and the union iff at least one input is; with
\* zero masks each raises ValueError and returns nothing.
C3_FoldIsAllAny ==
    /\ (call.op = "intersection_of_masks" /\ Len(call.masks) >= 1)
       => /\ call.result.status = "ok"
          /\ DOMAIN call.result.mask.vals = Idx(<<NCell>>)
          /\ \A idx \in Idx(<<NCell>>) :
                call.result.mask.vals[idx]
                  = (\A i \in 1..Len(call.masks) : call.masks[i].vals[idx])
    /\ (call.op = "union_of_masks" /\ Len(call.masks) >= 1)
       => /\ call.result.status = "ok"
          /\ DOMAIN call.result.mask.vals = Idx(<<NCell>>)
          /\ \A idx \in Idx(<<NCell>>) :
                call.result.mask.vals[idx]
                  = (\E i \in 1..Len(call.masks) : call.masks[i].vals[idx])
    /\ (CombinatorCall /\ Len(call.masks) = 0)
       => /\ call.result.status = "ValueError"
          /\ call.result.mask = NoMask

\* C3 witness: an intersection of three masks where only the third is False
\* at some cell, and all three are True at another
C3_Witness ==
    /\ call.op = "intersection_of_masks"
    /\ Len(call.masks) = 3
    /\ \E idx \in Idx(<<NCell>>) :
          /\ call.masks[1].vals[idx]
          /\ call.masks[2].vals[idx]
          /\ ~call.masks[3].vals[idx]
          /\ ~call.result.mask.vals[idx]
    /\ \E idx \in Idx(<<NCell>>) : call.result.mask.vals[idx]

\* the inputs that carry attribute key k, in input order
Carriers(k) == SelectSeq(call.masks, LAMBDA m : HasKey(m.attrs, k))

\* '<mask_name>: <value>' of one input mask
EntryOf(m, k) == MaskNameOf(m) \o <<": ">> \o FmtValue(Decode(GetKey(m.attrs, k)))

\* the merged value the rule prescribes for key k
PrescribedValue(k, method) ==
    LET c == Carriers(k)
        values == {Decode(GetKey(c[i].attrs, k)) : i \in 1..Len(c)}
    IN  IF Cardinality(values) = 1
        THEN CHOOSE v \in values : TRUE
        ELSE Str(<<method, " of:\n">>
                 \o JoinToks([i \in 1..Len(c) |-> EntryOf(c[i], k)], <<",\n">>))

InputKeys == UNION {Keys(call.masks[i].attrs) : i \in 1..Len(call.masks)} \ {"mask_name"}

\* C4: provenance merge: for every key other than mask_name on the inputs,
\* the combined mask carries the common value if the inputs agree on it, and
\* otherwise '<intersection|union> of:\n' followed by one '<mask_name>:
\* <value>' entry per input mask, in input order, joined by ',\n'.
C4_ProvenanceMerge ==
    (CombinatorCall /\ Len(call.masks) >= 1)
    => LET method == IF call.op = "intersection_of_masks" THEN "intersection" ELSE "union"
       IN  /\ Keys(call.result.mask.attrs) = InputKeys
           /\ \A k \in InputKeys :
                 GetKey(call.result.mask.attrs, k) = PrescribedValue(k, method)

\* the inputs of the call carry pairwise different mask names
DistinctNames ==
    \A i, j \in 1..Len(call.masks) :
        i # j => MaskNameOf(call.masks[i]) # MaskNameOf(call.masks[j])

\* the merge rule for inputs with pairwise different names
MergeWithDistinctNames ==
    (CombinatorCall /\ Len(call.masks) >= 1 /\ DistinctNames)
    => LET method == IF call.op = "intersection_of_masks" THEN "intersection" ELSE "union"
       IN  /\ Keys(call.result.mask.attrs) = InputKeys
           /\ \A k \in InputKeys :
                 GetKey(call.result.mask.attrs, k) = PrescribedValue(k, method)

\* ------------------------------------------------- create_masks claims
Finished == cm.phase \in {"done", "error"}

Requested == {cm.masks[k] : k \in 1..Len(cm.masks)}

\* the requested entries that are catalog atoms, and those that are compounds
RequestedAtoms == {n.toks : n \in {m \in Requested : m.str /\ IsImplemented(m.toks)}}

IsCompound(toks) == ~IsImplemented(toks) /\ ("&" \in Range(toks) \/ "|" \in Range(toks))

RequestedCompounds == {n.toks : n \in {m \in Requested : m.str /\ IsCompound(m.toks)}}

\* the operator a compound is split on, and its operand names
OperatorOf(toks) == IF "&" \in Range(toks) THEN "&" ELSE "|"

OperandsOf(toks) == Range(Split(toks, OperatorOf(toks)))

\* the value of mask m at cell idx of a (lat, lon) or (lat) result
ValAt(m, idx) == IF Len(m.dims) = 1 THEN m.vals[<<idx[1]>>] ELSE m.vals[idx]

Stored(toks) == GetKey(cm.created_masks, toks)

LogPos(event) == CHOOSE k \in 1..Len(cm.log) : cm.log[k] = event

\* C5: the returned mapping's keys are exactly the requested atoms, the
\* requested compounds verbatim and the operand atoms of the compounds; every
\* operand is built before its compound is combined; the mask under 'a&b&...'
\* (resp. 'a|b|...') is the cellwise AND (resp. OR) of the masks under its
\* operands.
C5_KeysAndCompoundValues ==
    cm.phase = "done"
    => /\ Keys(cm.created_masks)
            = RequestedAtoms \cup RequestedCompounds
              \cup UNION {OperandsOf(c) : c \in RequestedCompounds}
       /\ \A c \in RequestedCompounds :
             /\ \A o \in OperandsOf(c) :
                   /\ IsImplemented(o)
                   /\ HasKey(cm.created_masks, o)
                   /\ <<"build", o>> \in Range(cm.log)
                   /\ LogPos(<<"build", o>>) < LogPos(<<"combine", c>>)
             /\ \A idx \in DOMAIN Stored(c).vals :
                   Stored(c).vals[idx]
                     = IF OperatorOf(c) = "&"
                       THEN \A o \in OperandsOf(c) : ValAt(Stored(o), idx)
                       ELSE \E o \in OperandsOf(c) : ValAt(Stored(o), idx)
             /\ Stored(c).shape
                  = IF \E o \in OperandsOf(c) : Len(Stored(o).dims) = 2
                    THEN <<Len(cm.dataset.lat), Len(cm.dataset.lon)>>
                    ELSE <<Len(cm.dataset.lat)>>

\* C5 witness: an OR-compound whose operands were not requested, returned
\* next to a requested atom, with cells of both values
C5_Witness ==
    /\ cm.phase = "done"
    /\ cm.masks = <<Name(<<"NH_polar", "|", "NWN">>), Name(<<"global">>)>>
    /\ Keys(cm.created_masks)
         = {<<"global">>, <<"NH_polar">>, <<"NWN">>, <<"NH_polar", "|", "NWN">>}
    /\ \E idx \in DOMAIN Stored(<<"NH_polar", "|", "NWN">>).vals :
          Stored(<<"NH_polar", "|", "NWN">>).vals[idx]
    /\ \E idx \in DOMAIN Stored(<<"NH_polar", "|", "NWN">>).vals :
          ~Stored(<<"NH_polar", "|", "NWN">>).vals[idx]

SurfaceAtoms == {<<"land">>, <<"ocean">>}

\* the first time slice of a supplied fraction field, at cell idx
FirstSlice(f, idx) ==
    IF HasDim(f.arr, "time") THEN f.arr.vals[<<1>> \o idx] ELSE f.arr.vals[idx]

\* the fraction a surface atom is thresholded on, from the supplied fields
SuppliedFraction(atom, idx) ==
    LET same == IF atom = <<"land">> THEN cm.landfrac_mask ELSE cm.oceanfrac_mask
        other == IF atom = <<"land">> THEN cm.oceanfrac_mask ELSE cm.landfrac_mask
    IN  IF ~same.none THEN FirstSlice(same, idx) ELSE 10 - FirstSlice(other, idx)

\* some compound references 'land' or 'ocean' that is no entry of the request
UnrequestedSurfaceOperand ==
    \E c \in RequestedCompounds :
        \E a \in SurfaceAtoms : a \in OperandsOf(c) /\ a \notin RequestedAtoms

\* the request holds an entry that is faulty for another reason: not a string,
\* neither atom nor compound, a compound with an operand outside the catalog,
\* or a requested surface atom (whose build depends on the supplied fields)
OtherFault ==
    \/ \E m \in Requested : ~m.str
    \/ \E m \in Requested : ~IsImplemented(m.toks) /\ ~IsCompound(m.toks)
    \/ \E c \in RequestedCompounds : \E o \in OperandsOf(c) : ~IsImplemented(o)
    \/ RequestedAtoms \cap SurfaceAtoms # {}

C6_WitnessRequested ==
    /\ cm.phase = "done"
    /\ cm.masks = <<Name(<<"NH_polar", "&", "land">>), Name(<<"land">>)>>
    /\ HasKey(cm.created_masks, <<"NH_polar", "&", "land">>)

\* ------------------------------------------------ coordinate validation
\* the candidate values strictly outside the valid domain, in the order given
Offending(values, valid_range) ==
    SelectSeq(values.elems, LAMBDA v : v < valid_range[1] \/ v > valid_range[2])

\* C11: a candidate that is no array, list or tuple raises TypeError; a list
\* or array raises ValueError iff some value lies strictly below the valid
\* minimum or strictly above the valid maximum, the error lists exactly the
\* offending values and values on a bound are accepted; a range tuple is never
\* checked against the valid domain; an error leaves no mask.
C11_CoordinateValidation ==
    CoordCall
    => /\ call.values.kind \notin {"ndarray", "list", "tuple"}
          => call.result.status = "TypeError"
       /\ call.values.kind \in {"ndarray", "list"}
          => /\ (call.result.status = "ValueError")
                  = (\E i \in 1..Len(call.values.elems) :
                        \/ call.values.elems[i] < call.valid_range[1]
                        \/ call.values.elems[i] > call.valid_range[2])
             /\ call.result.status \in {"ok", "ValueError"}
             /\ call.result.bad = Offending(call.values, call.valid_range)
             /\ call.valid_range[1] \notin Range(call.result.bad)
             /\ call.valid_range[2] \notin Range(call.result.bad)
       /\ (/\ WellFormedTuple(call.values)
           /\ call.range_mode \in range_modes)
          => /\ call.result.status = "ok"
             /\ call.result.bad = <<>>
       /\ call.result.status # "ok" => call.result.mask = NoMask

\* C11 witness: a list holding the lower bound, a value below it and a value
\* above the upper bound is rejected, naming the two offenders only
C11_Witness ==
    /\ CoordCall
    /\ call.values.kind = "list"
    /\ call.values.elems = <<call.valid_range[2] + 1, call.valid_range[1] - 1>>
    /\ call.result.status = "ValueError"
    /\ call.result.bad = call.values.elems

\* a range tuple with an endpoint outside the valid domain is accepted, and a
\* list holding both bounds is accepted
C11_WitnessAccepted ==
    /\ CoordCall
    /\ \/ /\ call.values.kind = "tuple"
          /\ WellFormedTuple(call.values)
          /\ call.values.elems[1] < call.valid_range[1]
       \/ /\ call.values.kind = "list"
          /\ call.values.elems = <<call.valid_range[1], call.valid_range[2]>>
    /\ call.result.status = "ok"

\* -------------------------------------------------------- region masks
RegionCall == pc = "called" /\ call.op = "create_ar6_region_mask"

\* C12: when the abbreviation is in the catalog, the region mask is True
\* exactly on the cells whose catalog region index equals the abbreviation's
\* index (index 0 included) and False elsewhere, cells of no region included;
\* when the abbreviation is absent the call raises and yields no mask.
C12_RegionMaskIsIndexMatch ==
    RegionCall
    => IF \E k \in 1..Len(ar6_regions) : ar6_regions[k] = call.region_abbrev
       THEN LET k == CHOOSE k \in 1..Len(ar6_regions) :
                        ar6_regions[k] = call.region_abbrev
                region == Ar6Mask(call.data)
            IN  /\ call.result.status = "ok"
                /\ call.result.mask.dtype = "bool"
                /\ DOMAIN call.result.mask.vals = DOMAIN region.vals
                /\ \A idx \in DOMAIN region.vals :
                      call.result.mask.vals[idx] = (region.vals[idx] = k - 1)
       ELSE /\ call.result.status # "ok"
            /\ call.result.mask = NoMask

\* C12 witness: the region of catalog index 0 is asked for on a grid that has
\* a cell inside it, a cell of another region and a cell of no region
C12_Witness ==
    /\ RegionCall
    /\ call.region_abbrev = ar6_regions[1]
    /\ call.result.status = "ok"
    /\ LET region == Ar6Mask(call.data)
       IN  /\ \E idx \in DOMAIN region.vals :
                 region.vals[idx] = 0 /\ call.result.mask.vals[idx]
           /\ \E idx \in DOMAIN region.vals :
                 region.vals[idx] = 1 /\ ~call.result.mask.vals[idx]
           /\ \E idx \in DOMAIN region.vals :
                 region.vals[idx] = NaN /\ ~call.result.mask.vals[idx]

\* an abbreviation the catalog does not hold is refused
C12_WitnessAbsent ==
    /\ RegionCall
    /\ call.region_abbrev \notin Range(ar6_regions)
    /\ call.result.status = "ValueError"

\* ---------------------------------------------------------- global mask
GlobalBuilt == cm.phase # "none" /\ HasKey(cm.created_masks, <<"global">>)

C14_SingletonIdentity ==
    (CombinatorCall /\ Len(call.masks) = 1)
    => /\ call.result.status = "ok"
       /\ call.result.mask.vals = call.masks[1].vals
       /\ call.result.mask.attrs = call.masks[1].attrs

\* C15: intersection_of_masks(A, B) and intersection_of_masks(B, A) have the
\* same values, which are the cellwise conjunction of B and A.
C15_IntersectionCommutes ==
    (call.op = "intersection_of_masks" /\ Len(call.masks) = 2)
    => LET A == call.masks[1]
           B == call.masks[2]
           swapped == IntersectionOfMasks(<<B, A>>)
       IN  /\ call.result.status = "ok"
           /\ swapped.status = "ok"
           /\ call.result.mask.vals = swapped.mask.vals
           /\ DOMAIN call.result.mask.vals = Idx(<<NCell>>)
           /\ \A idx \in Idx(<<NCell>>) :
                 call.result.mask.vals[idx] = (B.vals[idx] /\ A.vals[idx])

\* C15 witness: A and B differ, in a cell where only A is True and in a cell
\* where only B is True
C15_Witness ==
    /\ call.op = "intersection_of_masks"
    /\ Len(call.masks) = 2
    /\ \E idx \in Idx(<<NCell>>) : call.masks[1].vals[idx] /\ ~call.masks[2].vals[idx]
    /\ \E idx \in Idx(<<NCell>>) : ~call.masks[1].vals[idx] /\ call.masks[2].vals[idx]
    /\ call.result.status = "ok"

\* ~mask: the cellwise negation
NotMask(m) == [m EXCEPT !.vals = [idx \in DOMAIN m.vals |-> ~m.vals[idx]]]

\* C16: De Morgan: the negation of union_of_masks(A, B) has the values of
\* intersection_of_masks(NOT A, NOT B).
C16_DeMorgan ==
    (call.op = "union_of_masks" /\ Len(call.masks) = 2)
    => LET A == call.masks[1]
           B == call.masks[2]
           dual == IntersectionOfMasks(<<NotMask(A), NotMask(B)>>)
       IN  /\ call.result.status = "ok"
           /\ dual.status = "ok"
           /\ NotMask(call.result.mask).vals = dual.mask.vals
           /\ \A idx \in Idx(<<NCell>>) :
                 (~call.result.mask.vals[idx]) = (~A.vals[idx] /\ ~B.vals[idx])

\* C16 witness: a union of two masks that are both True in one cell and both
\* False in another
C16_Witness ==
    /\ call.op = "union_of_masks"
    /\ Len(call.masks) = 2
    /\ \E idx \in Idx(<<NCell>>) : call.masks[1].vals[idx] /\ call.masks[2].vals[idx]
    /\ \E idx \in Idx(<<NCell>>) : ~call.masks[1].vals[idx] /\ ~call.masks[2].vals[idx]
    /\ call.result.status = "ok"

\* C17: for every N >= 1 the combinators leave their input masks as they were
\* and return a new mask object, not one of the inputs.
C17_InputsReadOnlyResultNew ==
    (CombinatorCall /\ Len(call.masks) >= 1)
    => /\ call.result.status = "ok"
       /\ call.result.inputs = call.masks
       /\ call.result.same_object_as = 0

\* for two or more inputs the frame condition does hold
C17_HoldsFromTwoInputs ==
    (CombinatorCall /\ Len(call.masks) >= 2)
    => /\ call.result.inputs = call.masks
       /\ call.result.same_object_as = 0

\* ------------------------------------- what the returned mapping carries
\* the masks of the mapping create_masks holds
MappedMasks == {cm.created_masks[k][2] : k \in 1..Len(cm.created_masks)}

ProvenanceKeys == {"mask_name", "mask_type", "mask_description"}

\* C18: every mask in the mapping returned by create_masks, atomic or
\* compound, carries the attributes mask_name, mask_type and mask_description.
C18_EveryMaskCarriesProvenance ==
    cm.phase = "done"
    => \A m \in MappedMasks : ProvenanceKeys \subseteq Keys(m.attrs)

\* the atomic masks of the mapping do carry the three attributes
C18_AtomsCarryProvenance ==
    cm.phase = "done"
    => \A k \in 1..Len(cm.created_masks) :
          IsImplemented(cm.created_masks[k][1])
          => ProvenanceKeys \subseteq Keys(cm.created_masks[k][2].attrs)

\* C19: every mask an atomic builder produced and every mask of the mapping
\* of create_masks is of boolean dtype, while the run holds it (and so when it
\* is handed to a combinator) and when the mapping is returned.
C19_MasksAreBoolean ==
    cm.phase # "none"
    => \A m \in MappedMasks :
          /\ m.dtype = "bool"
          /\ \A idx \in DOMAIN m.vals : m.vals[idx] \in BOOLEAN

\* C19 witness: a returned mapping holding the global mask, a surface mask, a
\* latitude band and a compound combined from them
C19_Witness ==
    /\ cm.phase = "done"
    /\ HasKey(cm.created_masks, <<"global">>)
    /\ HasKey(cm.created_masks, <<"land">>)
    /\ HasKey(cm.created_masks, <<"SH_midlat">>)
    /\ \E k \in 1..Len(cm.created_masks) :
          /\ IsCompound(cm.created_masks[k][1])
          /\ <<"combine", cm.created_masks[k][1]>> \in Range(cm.log)
          /\ cm.created_masks[k][2].dtype = "bool"

\* ------------------------------------------------- non-string entries
HasNonString == cm.phase # "none" /\ \E k \in 1..Len(cm.masks) : ~cm.masks[k].str

\* the position of the first entry that is not a string
FirstNonString ==
    CHOOSE k \in 1..Len(cm.masks) :
       ~cm.masks[k].str /\ \A j \in 1..(k - 1) : cm.masks[j].str

\* the build events of the catalog atoms among the first n entries, in order
RECURSIVE AtomBuildsUpTo(_)
AtomBuildsUpTo(n) ==
    IF n = 0 THEN <<>>
    ELSE AtomBuildsUpTo(n - 1)
           \o (IF cm.masks[n].str /\ IsImplemented(cm.masks[n].toks)
               THEN << <<"build", cm.masks[n].toks>> >> ELSE <<>>)

C20_WitnessFirst ==
    /\ HasNonString
    /\ cm.phase = "error"
    /\ FirstNonString = 1
    /\ Len(cm.masks) = 2
    /\ cm.err.type = "TypeError"
    /\ cm.log = <<>>

\* ------------------------------------------------- no partial recovery
HasOperator(toks) == "&" \in Range(toks) \/ "|" \in Range(toks)

\* the text between the operators of a compound, whichever operator it is
RECURSIVE Fragments(_)
Fragments(toks) ==
    IF ~HasOperator(toks) THEN {toks}
    ELSE LET p == CHOOSE i \in 1..Len(toks) : toks[i] \in {"&", "|"}
         IN  {SubSeq(toks, 1, p - 1)} \cup Fragments(SubSeq(toks, p + 1, Len(toks)))

\* a requested string that is neither a catalog atom nor a compound
UnknownRequested ==
    {m \in Requested : m.str /\ ~IsImplemented(m.toks) /\ ~HasOperator(m.toks)}

\* a requested compound one of whose operands is no catalog atom
BadCompounds ==
    {toks \in RequestedCompounds : \E f \in Fragments(toks) : ~IsImplemented(f)}

FaultyRequest == cm.phase # "none" /\ (UnknownRequested # {} \/ BadCompounds # {})

\* C21: if a requested name is neither a catalog atom nor holds '&' or '|',
\* or an operand of a requested compound is no catalog atom, create_masks
\* raises and returns no mapping, wherever the bad name stands in the list and
\* however many other names are valid.
C21_NoPartialRecovery ==
    FaultyRequest
    => /\ cm.phase # "done"
       /\ Finished => /\ cm.phase = "error"
                      /\ cm.err.type # "none"

\* C21 witness: the bad name is the last entry, after a valid atom that was
\* built, and the call raised
C21_Witness ==
    /\ FaultyRequest
    /\ cm.phase = "error"
    /\ Len(cm.masks) = 2
    /\ cm.masks[1].str /\ IsImplemented(cm.masks[1].toks)
    /\ HasKey(cm.created_masks, cm.masks[1].toks)
    /\ cm.masks[2] \in UnknownRequested

\* a compound with an unknown operand, listed before a valid atom
C21_WitnessOperand ==
    /\ FaultyRequest
    /\ cm.phase = "error"
    /\ Len(cm.masks) = 2
    /\ cm.masks[1].toks \in BadCompounds
    /\ cm.masks[2].str /\ IsImplemented(cm.masks[2].toks)
    /\ cm.err.stage = "operand-unknown"

\* ------------------------------------------------------ error context
\* the text name occurs in the message msg
Mentions(msg, name) ==
    \E i \in 1..(Len(msg) - Len(name) + 1) : SubSeq(msg, i, i + Len(name) - 1) = name

\* the requested entry the run was working on when it raised
OffendingRequested ==
    IF cm.err.stage \in {"operand-build", "operand-unknown", "combine"}
    THEN cm.queue[cm.i][1]
    ELSE cm.masks[cm.i].toks

BuilderFailure == cm.phase = "error" /\ cm.err.stage \in {"atom-build", "operand-build", "combine"}

\* C22: every builder failure that leaves create_masks carries the offending
\* requested mask or compound name in its context: for an atom built in the
\* top-level pass, for an atom built because a compound references it (the
\* context names the compound), and for a failing combination.
C22_FailuresNameTheRequest ==
    BuilderFailure => Mentions(cm.err.msg, OffendingRequested)

\* the errors create_masks raises itself do name the entry they are about
C22_OwnErrorsNameTheRequest ==
    (cm.phase = "error" /\ cm.err.stage \in {"type-check", "unknown-name", "operand-unknown"})
    => Mentions(cm.err.msg, OffendingRequested)

\* ------------------------------------------------ atoms are built once
\* how many times the atom was handed to the atomic dispatch so far
BuildCount(atom) == Cardinality({k \in 1..Len(cm.log) : cm.log[k] = <<"build", atom>>})

BuiltAtoms == {cm.log[k][2] : k \in {j \in 1..Len(cm.log) : cm.log[j][1] = "build"}}

\* the same atomic name stands at two places of the request list
RepeatedAtomRequested ==
    \E j, k \in 1..Len(cm.masks) :
       /\ j < k
       /\ cm.masks[j] = cm.masks[k]
       /\ cm.masks[j].str
       /\ IsImplemented(cm.masks[j].toks)

\* C23: within one create_masks call each atomic mask is built at most once:
\* an atom already in the mapping is not rebuilt, neither when a compound
\* references it nor when the same atomic name occurs again in the request
\* list, and a compound that references the atom combines the stored mask.
C23_AtomsBuiltAtMostOnce ==
    cm.phase # "none" => \A atom \in BuiltAtoms : BuildCount(atom) <= 1

\* the compound loop never rebuilds: a second build only comes from a name
\* listed twice
C23_RebuiltOnlyWhenListedTwice ==
    (cm.phase # "none" /\ ~RepeatedAtomRequested)
    => \A atom \in BuiltAtoms : BuildCount(atom) <= 1

\* --------------------------------------------------- alignment helpers
AlignCall == pc = "called" /\ call.operation \in operations \cup {"broadcast"}

\* some two operands differ in the index of a dimension they share
Misaligned(args) ==
    \E i, j \in 1..Len(args) :
       \E d \in Range(args[i].dims) \cap Range(args[j].dims) :
          args[i].coords[DimPos(args[i].dims, d)] # args[j].coords[DimPos(args[j].dims, d)]

\* the value the named operation gives for the cell values x and y
Elementwise(operation, x, y) ==
    CASE operation = "add" -> x + y
      [] operation = "subtract" -> x - y
      [] operation = "multiply" -> x * y
      [] operation = "divide" -> [num |-> x, den |-> y]
      [] operation = "power" -> IF y = 0 THEN 1 ELSE IF y = 1 THEN x
                                ELSE IF y = 2 THEN x * x ELSE x * x * x

\* the cell of operand a that cell idx of result r is computed from
CellOf(a, r, idx) == a.vals[[p \in 1..Len(a.dims) |-> idx[DimPos(r.dims, a.dims[p])]]]

\* C24: with the default join 'exact', each of add/subtract/multiply/divide/
\* power_with_alignment and broadcast_with_alignment raises ValueError and
\* gives no result whenever the operands differ in the index of a shared
\* dimension; when the indexes are identical a two-operand call returns the
\* elementwise result of the named operation.
C24_ExactAlignmentOrValueError ==
    AlignCall
    => /\ Misaligned(call.args)
          => /\ call.result.status = "ValueError"
             /\ call.result.value = NoResult
       /\ (/\ ~Misaligned(call.args)
           /\ Len(call.args) = 2
           /\ call.operation \in operations)
          => LET a == call.args[1]
                 b == call.args[2]
                 r == call.result.value
             IN  /\ call.result.status = "ok"
                 /\ Range(r.dims) = Range(a.dims) \cup Range(b.dims)
                 /\ \A p \in 1..Len(r.dims) :
                       /\ HasDim(a, r.dims[p])
                          => r.coords[p] = a.coords[DimPos(a.dims, r.dims[p])]
                       /\ HasDim(b, r.dims[p])
                          => r.coords[p] = b.coords[DimPos(b.dims, r.dims[p])]
                 /\ DOMAIN r.vals = Idx([p \in 1..Len(r.dims) |-> Len(r.coords[p])])
                 /\ \A idx \in DOMAIN r.vals :
                       r.vals[idx] = Elementwise(call.operation,
                                                 CellOf(a, r, idx), CellOf(b, r, idx))

\* C24 witness: a division of two operands on the same index succeeded
C24_Witness ==
    /\ AlignCall
    /\ call.operation = "divide"
    /\ call.args[1].dims = call.args[2].dims
    /\ call.args[1].vals # call.args[2].vals
    /\ call.result.status = "ok"
    /\ \E idx \in DOMAIN call.result.value.vals :
          call.result.value.vals[idx] = [num |-> 2, den |-> 1]

\* an index holding the same labels in another order is rejected, and so is
\* a broadcast of operands on different indexes
C24_WitnessRejected ==
    /\ AlignCall
    /\ \/ /\ call.operation = "subtract"
          /\ call.args[1].coords = << <<10, 20>> >>
          /\ call.args[2].coords = << <<20, 10>> >>
       \/ /\ call.operation = "broadcast"
          /\ Len(call.args) = 2
          /\ call.args[1].coords = << <<10, 20>> >>
          /\ call.args[2].coords = << <<10, 30>> >>
    /\ call.result.status = "ValueError"

\* the sum (product) of the cells the operands contribute to cell idx
RECURSIVE SumCells(_, _, _)
SumCells(args, r, idx) ==
    IF Len(args) = 0 THEN 0
    ELSE CellOf(Head(args), r, idx) + SumCells(Tail(args), r, idx)

RECURSIVE ProductCells(_, _, _)
ProductCells(args, r, idx) ==
    IF Len(args) = 0 THEN 1
    ELSE CellOf(Head(args), r, idx) * ProductCells(Tail(args), r, idx)

\* C25: add_with_alignment and multiply_with_alignment accept any number
\* N >= 2 of mutually aligned operands and return the elementwise sum (resp.
\* product) of all N; three aligned operands give a + b + c (resp. a * b * c).
C25_NaryAddMultiply ==
    (/\ AlignCall
     /\ call.operation \in {"add", "multiply"}
     /\ Len(call.args) >= 2
     /\ ~Misaligned(call.args))
    => /\ call.result.status = "ok"
       /\ \A idx \in DOMAIN call.result.value.vals :
             call.result.value.vals[idx]
               = IF call.operation = "add"
                 THEN SumCells(call.args, call.result.value, idx)
                 ELSE ProductCells(call.args, call.result.value, idx)

\* with exactly two aligned operands the sum and the product are returned
C25_HoldsForTwoOperands ==
    (/\ AlignCall
     /\ call.operation \in {"add", "multiply"}
     /\ Len(call.args) = 2
     /\ ~Misaligned(call.args))
    => /\ call.result.status = "ok"
       /\ \A idx \in DOMAIN call.result.value.vals :
             call.result.value.vals[idx]
               = IF call.operation = "add"
                 THEN SumCells(call.args, call.result.value, idx)
                 ELSE ProductCells(call.args, call.result.value, idx)

\* any other number of aligned operands ends in a TypeError
C25_OtherCountsRaise ==
    (/\ AlignCall
     /\ call.operation \in {"add", "multiply"}
     /\ Len(call.args) \notin {0, 2}
     /\ ~Misaligned(call.args))
    => call.result.status = "TypeError"

\* ------------------------------------------------ where-compatibility
WhereCall == pc = "called" /\ call.op = "is_where_compatible"

BooleanCond == call.cond.dtype = "bool"

\* cond can be broadcast against data: no dimension they share has two sizes
\* that labels cannot reconcile (a numpy array brings dimensions dim_0, ...)
Broadcastable ==
    LET names == IF call.cond.kind = "ndarray"
                 THEN [p \in 1..Len(call.cond.shape) |-> "dim_" \o ToString(p - 1)]
                 ELSE call.cond.dims
        labelled == call.cond.kind = "DataArray" /\ call.cond.indexed
    IN  \A p \in 1..Len(names) :
           \A q \in 1..Len(call.data.dims) :
              call.data.dims[q] = names[p]
              => \/ call.data.shape[q] = call.cond.shape[p]
                 \/ (call.data.indexed /\ labelled)

\* C26: is_where_compatible returns True iff cond has boolean dtype and is
\* broadcastable to data; otherwise with exit_on_error=True it raises
\* TypeError for a non-boolean cond (checked first) or ValueError for a
\* non-broadcastable one, and with exit_on_error=False it never raises and
\* returns False, for every cond, one without any dtype included.
C26_WhereCompatible ==
    WhereCall
    => /\ (call.result.ret = "True") = (BooleanCond /\ Broadcastable)
       /\ (BooleanCond /\ Broadcastable) => call.result.status = "ok"
       /\ (call.exit_on_error /\ ~BooleanCond) => call.result.status = "TypeError"
       /\ (call.exit_on_error /\ BooleanCond /\ ~Broadcastable)
          => call.result.status = "ValueError"
       /\ (~call.exit_on_error /\ ~(BooleanCond /\ Broadcastable))
          => /\ call.result.status = "ok"
             /\ call.result.ret = "False"

\* for a cond that has a dtype the contract holds
C26_HoldsWhenCondHasDtype ==
    (WhereCall /\ call.cond.dtype # "none")
    => /\ (call.result.ret = "True") = (BooleanCond /\ Broadcastable)
       /\ (call.exit_on_error /\ ~BooleanCond) => call.result.status = "TypeError"
       /\ (call.exit_on_error /\ BooleanCond /\ ~Broadcastable)
          => call.result.status = "ValueError"
       /\ (~call.exit_on_error /\ ~(BooleanCond /\ Broadcastable))
          => /\ call.result.status = "ok"
             /\ call.result.ret = "False"

\* a cond without a dtype raises AttributeError whatever exit_on_error is
C26_NoDtypeRaisesAttributeError ==
    (WhereCall /\ call.cond.dtype = "none") => call.result.status = "AttributeError"

\* ----------------------------------------------------- overwrite policy
SaveCall == pc = "called" /\ call.op \in {"save_figure", "save_xarray_to_netcdf"}

TargetExists == call.fs.target # "absent"

OverwriteIs(t, v) == call.overwrite = [t |-> t, v |-> v]

KnownOverwrite ==
    OverwriteIs("bool", "True") \/ OverwriteIs("bool", "False") \/ OverwriteIs("str", "prompt")

\* the answer is a single y or Y, with nothing but blanks around it
AnswerMeansYes ==
    \E k \in 1..Len(call.answer) :
       /\ call.answer[k] \in {"y", "Y"}
       /\ \A j \in 1..Len(call.answer) : j # k => call.answer[j] \in {" ", "\t"}

\* the overwrite policy, given when a prompt answer counts as a yes
Policy(yes) ==
    LET allowed == \/ ~TargetExists
                   \/ OverwriteIs("bool", "True")
                   \/ (OverwriteIs("str", "prompt") /\ yes)
    IN  SaveCall
        => IF TargetExists /\ ~KnownOverwrite
           THEN /\ call.result.status = "ValueError"
                /\ call.result.fs = call.fs
           ELSE /\ call.result.status = "ok"
                /\ (call.result.ret = "True") = allowed
                /\ allowed => call.result.fs = [target |-> call.content, parent |-> TRUE]
                /\ ~allowed => /\ call.result.ret = "False"
                               /\ call.result.fs = call.fs

\* C27 as stated: the save helpers write the target and return True iff the
\* target does not exist, or overwrite is True, or overwrite is 'prompt' and
\* the user answers 'y'; an existing target is not written when overwrite is
\* False or the answer is anything other than 'y' (False is returned, file
\* and parent directory untouched); any other overwrite value on an existing
\* target raises ValueError.
C27_OverwritePolicyExactY == Policy(call.answer = <<"y">>)

\* C27 amended: as above, where the prompt answer counts as a yes when it is
\* 'y' after surrounding whitespace is stripped and it is lower-cased, so
\* that 'Y' or ' y ' overwrite an existing target too.
C27_OverwritePolicy == Policy(AnswerMeansYes)

\* C27 witness: an existing target is overwritten after the answer 'Y'
C27_Witness ==
    /\ SaveCall
    /\ TargetExists
    /\ OverwriteIs("str", "prompt")
    /\ call.answer = <<"Y">>
    /\ call.result.ret = "True"
    /\ call.result.fs.target = call.content

\* an existing target is kept after 'yes', and an overwrite value of another
\* type is refused
C27_WitnessKept ==
    /\ SaveCall
    /\ TargetExists
    /\ \/ /\ OverwriteIs("str", "prompt")
          /\ call.answer = <<"y", "e", "s">>
          /\ call.result.ret = "False"
       \/ /\ OverwriteIs("int", "1")
          /\ call.result.status = "ValueError"
    /\ call.result.fs = call.fs

\* --------------------------------------------------------- phase order
\* the requested compounds holding '&', in list order, then those holding '|'
\* only, in list order
AndCompoundsListed ==
    SelectSeq(cm.masks, LAMBDA m : m.str /\ ~IsImplemented(m.toks) /\ "&" \in Range(m.toks))

OrCompoundsListed ==
    SelectSeq(cm.masks, LAMBDA m : /\ m.str /\ ~IsImplemented(m.toks)
                                   /\ "&" \notin Range(m.toks) /\ "|" \in Range(m.toks))

PhaseOrder ==
    [k \in 1..Len(AndCompoundsListed) |-> AndCompoundsListed[k].toks]
    \o [k \in 1..Len(OrCompoundsListed) |-> OrCompoundsListed[k].toks]

\* the compounds combined so far, in the order they were combined
CombinedSoFar ==
    LET events == SelectSeq(cm.log, LAMBDA e : e[1] = "combine")
    IN  [k \in 1..Len(events) |-> events[k][2]]

\* entry k makes the first loop raise: it is no string, an unknown name, or an
\* atom whose builder fails with the fraction fields of the call
ScanFaulty(k) ==
    LET m == cm.masks[k]
    IN  \/ ~m.str
        \/ m.str /\ ~IsImplemented(m.toks) /\ ~HasOperator(m.toks)
        \/ /\ m.str
           /\ IsImplemented(m.toks)
           /\ CreateAnImplementedMask(cm.dataset, m.toks[1], cm.landfrac_mask,
                                      cm.oceanfrac_mask).status # "ok"

ScanStages == {"type-check", "unknown-name", "atom-build"}

\* C28: create_masks works in three phases whatever the order of the list:
\* every entry is type-checked and classified and every atomic entry built,
\* in list order; then every AND-compound, in list order; then every
\* OR-compound, in list order. No compound is combined before the whole list
\* is scanned, no OR-compound before an AND-compound of the request, and of
\* several faulty entries the error raised is the one met first in this order.
C28_ThreePhases ==
    cm.phase # "none"
    => /\ cm.phase = "scan"
          => /\ CombinedSoFar = <<>>
             /\ cm.log = AtomBuildsUpTo(cm.i - 1)
             /\ \A k \in 1..(cm.i - 1) : ~ScanFaulty(k)
       /\ cm.phase \in {"combine", "done"}
          => /\ \A k \in 1..Len(cm.masks) : ~ScanFaulty(k)
             /\ SubSeq(cm.log, 1, Len(AtomBuildsUpTo(Len(cm.masks))))
                  = AtomBuildsUpTo(Len(cm.masks))
             /\ CombinedSoFar = SubSeq(PhaseOrder, 1, cm.i - 1)
       /\ cm.phase = "done" => CombinedSoFar = PhaseOrder
       /\ cm.phase = "error"
          => IF \E k \in 1..Len(cm.masks) : ScanFaulty(k)
             THEN /\ cm.err.stage \in ScanStages
                  /\ ScanFaulty(cm.i)
                  /\ \A k \in 1..(cm.i - 1) : ~ScanFaulty(k)
                  /\ CombinedSoFar = <<>>
             ELSE /\ cm.err.stage \notin ScanStages
                  /\ CombinedSoFar = SubSeq(PhaseOrder, 1, cm.i - 1)
                  /\ OffendingRequested = PhaseOrder[cm.i]

\* C28 witness: an OR-compound listed ahead of an AND-compound is combined
\* after it
C28_Witness ==
    /\ cm.phase = "done"
    /\ Len(cm.masks) = 2
    /\ cm.masks[1].toks \in {OrCompoundsListed[k].toks : k \in 1..Len(OrCompoundsListed)}
    /\ cm.masks[2].toks \in {AndCompoundsListed[k].toks : k \in 1..Len(AndCompoundsListed)}
    /\ CombinedSoFar = <<cm.masks[2].toks, cm.masks[1].toks>>

\* a faulty compound listed ahead of an unknown name: the unknown name, met
\* in the scan, is the error raised
C28_WitnessErrorOrder ==
    /\ cm.phase = "error"
    /\ Len(cm.masks) = 2
    /\ cm.masks[1].toks \in BadCompounds
    /\ cm.masks[2] \in UnknownRequested
    /\ cm.err.stage = "unknown-name"
    /\ cm.err.name = cm.masks[2].toks

\* ------------------------------------------------------ mixed operators
\* the requested names that hold both '&' and '|'
MixedRequested ==
    {m.toks : m \in {n \in Requested : /\ n.str
                                       /\ "&" \in Range(n.toks)
                                       /\ "|" \in Range(n.toks)}}

HasMixed == cm.phase # "none" /\ MixedRequested # {}

\* a mixed name is queued as an AND-compound and never stored
MixedIsAndCompoundNeverStored ==
    /\ cm.phase # "done"
    /\ \A toks \in MixedRequested :
          /\ ~HasKey(cm.created_masks, toks)
          /\ toks \notin Range(cm.or_masks)
          /\ <<"combine", toks>> \notin Range(cm.log)
          /\ \A k \in 1..Len(cm.queue) : cm.queue[k][1] = toks => cm.queue[k][2] = "&"
          /\ cm.phase = "combine" => toks \in Range(cm.and_masks)
    /\ (cm.phase = "error" /\ cm.err.stage \notin ScanStages
        /\ OffendingRequested \in MixedRequested)
       => /\ cm.err.stage \in {"operand-unknown", "operand-build"}
          /\ cm.err.stage = "operand-unknown" => "|" \in Range(cm.err.name)

C29_WitnessTypeError ==
    /\ HasMixed
    /\ cm.phase = "error"
    /\ cm.err.type = "TypeError"
    /\ cm.masks[1].toks \in MixedRequested

\* ------------------------------------------------------- latitude bands
PresetCall == pc = "called" /\ call.op = "_create_an_implemented_mask"

SixBands == {"NH_polar", "NH_midlat", "NH_tropics", "SH_tropics", "SH_midlat", "SH_polar"}

BandBoundaries == {-90, -60, -30, 0, 30, 60, 90}

\* preset name is True at grid point i
InBand(name, i) == call.result[name].mask.vals[<<i>>]

GridPoints == 1..Len(call.dataset.lat)

\* C30: on any latitude grid the six preset bands NH_polar, NH_midlat,
\* NH_tropics, SH_tropics, SH_midlat, SH_polar are pairwise disjoint; a grid
\* latitude equal to -90, -60, -30, 0, 30, 60 or 90 is True in none of them
\* (0 is True only in 'tropics', which is NH_tropics OR SH_tropics plus
\* latitude 0); so the union of the six is a strict subset of 'global'
\* whenever the grid holds one of these boundary latitudes.
C30_BandsDisjointBoundariesExcluded ==
    PresetCall
    => /\ \A name \in LatPresets : call.result[name].status = "ok"
       /\ \A a, b \in SixBands :
             a # b => \A i \in GridPoints : ~(InBand(a, i) /\ InBand(b, i))
       /\ \A i \in GridPoints :
             /\ call.dataset.lat[i] \in BandBoundaries
                => \A a \in SixBands : ~InBand(a, i)
             /\ call.dataset.lat[i] = 0
                => /\ InBand("tropics", i)
                   /\ \A a \in LatPresets \ {"tropics", "global"} : ~InBand(a, i)
             /\ InBand("tropics", i)
                  = (InBand("NH_tropics", i) \/ InBand("SH_tropics", i)
                     \/ call.dataset.lat[i] = 0)
             /\ InBand("global", i)
       /\ (\E i \in GridPoints : call.dataset.lat[i] \in BandBoundaries)
          => \E i \in GridPoints : InBand("global", i) /\ \A a \in SixBands : ~InBand(a, i)

\* C30 witness: a grid with the equator, a boundary and an interior latitude:
\* the interior point is in one band, the two others in none
C30_Witness ==
    /\ PresetCall
    /\ call.dataset.lat = <<0, 60, 45>>
    /\ InBand("NH_midlat", 3)
    /\ \A a \in SixBands : ~InBand(a, 1) /\ ~InBand(a, 2)
    /\ InBand("tropics", 1)

====
